---- MODULE Spec2Model ----
(***************************************************************************)
(* A model of CursWord's request-orchestration and code-materialization    *)
(* pipeline: the file-action extractor and filename normalization          *)
(* (services/localInferenceService.ts), the provider registry and the      *)
(* streaming adapters (services/multiProviderService.ts) and the session   *)
(* store with its mode handlers (the zustand store, src/unnamed/part_005). *)
(*                                                                         *)
(* Text is modelled as TLA+ strings; TLC evaluates Len, SubSeq and \o on   *)
(* strings, so includes/indexOf/trim/split and the regular expressions of  *)
(* the source are written out character by character.                      *)
(***************************************************************************)
EXTENDS Integers, Sequences, FiniteSets, TLC

(***************************************************************************)
(* String primitives (JavaScript String.prototype)                         *)
(***************************************************************************)
\* s.slice(i-1, j) with 1-based inclusive bounds, clamped to the string
Slice(s, i, j) ==
    LET a == IF i < 1 THEN 1 ELSE i
        b == IF j > Len(s) THEN Len(s) ELSE j
    IN  IF a > b THEN "" ELSE SubSeq(s, a, b)

\* the character at position i, "" outside the string
CharAt(s, i) == Slice(s, i, i)

From(s, i) == Slice(s, i, Len(s))

\* s starts with sub at position i (1-based)
StartsAt(s, sub, i) ==
    /\ i >= 1
    /\ i + Len(sub) - 1 <= Len(s)
    /\ SubSeq(s, i, i + Len(sub) - 1) = sub

Includes(s, sub) == \E i \in 1..(Len(s) - Len(sub) + 1) : StartsAt(s, sub, i)

\* least position >= from where sub occurs, 0 when there is none
IndexFrom(s, sub, from) ==
    LET hits == {i \in from..(Len(s) - Len(sub) + 1) : StartsAt(s, sub, i)}
    IN  IF hits = {} THEN 0 ELSE CHOOSE i \in hits : \A j \in hits : i <= j

LastIndexOf(s, sub) ==
    LET hits == {i \in 1..(Len(s) - Len(sub) + 1) : StartsAt(s, sub, i)}
    IN  IF hits = {} THEN 0 ELSE CHOOSE i \in hits : \A j \in hits : i >= j

LowerAlphabet == "abcdefghijklmnopqrstuvwxyz"
UpperAlphabet == "ABCDEFGHIJKLMNOPQRSTUVWXYZ"
Digits == "0123456789"

LowerChars == {SubSeq(LowerAlphabet, i, i) : i \in 1..26}
UpperChars == {SubSeq(UpperAlphabet, i, i) : i \in 1..26}
DigitChars == {SubSeq(Digits, i, i) : i \in 1..10}
WordChars == LowerChars \cup UpperChars \cup DigitChars \cup {"_"}

IsLowerChar(c) == c \in LowerChars
IsUpperChar(c) == c \in UpperChars
IsDigitChar(c) == c \in DigitChars

\* \s of the regular expressions and the characters String.trim removes
IsSpaceChar(c) == c \in {" ", "\t", "\n", "\r", "\f"}

\* \w
IsWordChar(c) == c \in WordChars

UpperOf == [c \in LowerChars |->
               LET i == CHOOSE k \in 1..26 : SubSeq(LowerAlphabet, k, k) = c
               IN  SubSeq(UpperAlphabet, i, i)]
LowerOf == [c \in UpperChars |->
               LET i == CHOOSE k \in 1..26 : SubSeq(UpperAlphabet, k, k) = c
               IN  SubSeq(LowerAlphabet, i, i)]

UpperChar(c) == IF c \in LowerChars THEN UpperOf[c] ELSE c

LowerChar(c) == IF c \in UpperChars THEN LowerOf[c] ELSE c

\* the case conversions work character by character; the text is split in halves
\* so that the depth of the evaluation grows with the logarithm of its length
RECURSIVE toUpperCase(_)
toUpperCase(s) ==
    IF s = "" THEN ""
    ELSE IF Len(s) = 1 THEN UpperChar(s)
    ELSE toUpperCase(SubSeq(s, 1, Len(s) \div 2)) \o toUpperCase(SubSeq(s, (Len(s) \div 2) + 1, Len(s)))

RECURSIVE toLowerCase(_)
toLowerCase(s) ==
    IF s = "" THEN ""
    ELSE IF Len(s) = 1 THEN LowerChar(s)
    ELSE toLowerCase(SubSeq(s, 1, Len(s) \div 2)) \o toLowerCase(SubSeq(s, (Len(s) \div 2) + 1, Len(s)))

\* first position >= i holding a character that is not white space (Len(s)+1 if none)
RECURSIVE SkipSpace(_, _)
SkipSpace(s, i) ==
    IF i <= Len(s) /\ IsSpaceChar(CharAt(s, i)) THEN SkipSpace(s, i + 1) ELSE i

\* last position <= j holding a character that is not white space (0 if none)
RECURSIVE SkipSpaceBack(_, _)
SkipSpaceBack(s, j) ==
    IF j >= 1 /\ IsSpaceChar(CharAt(s, j)) THEN SkipSpaceBack(s, j - 1) ELSE j

trim(s) == Slice(s, SkipSpace(s, 1), SkipSpaceBack(s, Len(s)))

\* The backquote: a TLA+ string literal cannot hold that character, so the model
\* writes "~" for it everywhere (no text of the model uses "~" for anything else).
Backquote == "~"

\* the code fence, three backquotes
Fence == Backquote \o Backquote \o Backquote

Min(S) == CHOOSE x \in S : \A y \in S : x <= y
Max(S) == CHOOSE x \in S : \A y \in S : x >= y

(***************************************************************************)
(* JSON.parse: a recursive-descent reader of JSON text.  Values are tagged *)
(* records: [t |-> "null"], [t |-> "bool", v], [t |-> "num", v] (the       *)
(* literal's text), [t |-> "str", v], [t |-> "arr", v] (a sequence) and    *)
(* [t |-> "obj", v] (a function from keys to values).  Unicode escapes are *)
(* not read; no text of the model holds one.                               *)
(***************************************************************************)
JFail == [ok |-> FALSE]
JOk(value, n) == [ok |-> TRUE, val |-> value, next |-> n]

JNull == [t |-> "null"]
JUndefined == [t |-> "undefined"]
JBool(b) == [t |-> "bool", v |-> b]
JNum(txt) == [t |-> "num", v |-> txt]
JStr(txt) == [t |-> "str", v |-> txt]
JArr(seq) == [t |-> "arr", v |-> seq]
JObj(fn) == [t |-> "obj", v |-> fn]

IsJsonSpace(c) == c \in {" ", "\t", "\n", "\r"}

RECURSIVE JSkip(_, _)
JSkip(s, i) == IF i <= Len(s) /\ IsJsonSpace(CharAt(s, i)) THEN JSkip(s, i + 1) ELSE i

RECURSIVE DigitsEnd(_, _)
DigitsEnd(s, i) == IF IsDigitChar(CharAt(s, i)) THEN DigitsEnd(s, i + 1) ELSE i

JParseNumber(s, i) ==
    LET Result(ok, end) == IF ok THEN JOk(JNum(Slice(s, i, end - 1)), end) ELSE JFail
        ExponentDigits(ok, x) == Result(ok /\ DigitsEnd(s, x) > x, DigitsEnd(s, x))
        Exponent(ok, f) ==
            IF CharAt(s, f) \in {"e", "E"}
            THEN ExponentDigits(ok, IF CharAt(s, f + 1) \in {"+", "-"} THEN f + 2 ELSE f + 1)
            ELSE Result(ok, f)
        Fraction(ok, d) ==
            IF CharAt(s, d) = "."
            THEN Exponent(ok /\ DigitsEnd(s, d + 1) > d + 1, DigitsEnd(s, d + 1))
            ELSE Exponent(ok, d)
        IntegerPart(a, d) == Fraction(d > a, d)
        Sign(a) == IntegerPart(a, IF CharAt(s, a) = "0" THEN a + 1 ELSE DigitsEnd(s, a))
    IN  Sign(IF CharAt(s, i) = "-" THEN i + 1 ELSE i)

\* the characters of a string literal from position i (after the opening quote)
RECURSIVE JScanString(_, _, _)
JScanString(s, i, acc) ==
    LET c == CharAt(s, i)
        e == CharAt(s, i + 1)
    IN  IF c = "" \/ c \in {"\n", "\t", "\r", "\f"} THEN JFail
        ELSE IF c = "\"" THEN JOk(JStr(acc), i + 1)
        ELSE IF c = "\\" THEN
            IF e \in {"\"", "\\", "/"} THEN JScanString(s, i + 2, acc \o e)
            ELSE IF e = "n" THEN JScanString(s, i + 2, acc \o "\n")
            ELSE IF e = "t" THEN JScanString(s, i + 2, acc \o "\t")
            ELSE IF e = "r" THEN JScanString(s, i + 2, acc \o "\r")
            ELSE JFail
        ELSE JScanString(s, i + 1, acc \o c)

RECURSIVE JParseValue(_, _)
RECURSIVE JParseMembers(_, _, _, _)
RECURSIVE JParseElements(_, _, _, _)

JParseValue(s, i) ==
    LET c == CharAt(s, i)
    IN  IF c = "{" THEN JParseMembers(s, JSkip(s, i + 1), <<>>, TRUE)
        ELSE IF c = "[" THEN JParseElements(s, JSkip(s, i + 1), <<>>, TRUE)
        ELSE IF c = "\"" THEN JScanString(s, i + 1, "")
        ELSE IF StartsAt(s, "true", i) THEN JOk(JBool(TRUE), i + 4)
        ELSE IF StartsAt(s, "false", i) THEN JOk(JBool(FALSE), i + 5)
        ELSE IF StartsAt(s, "null", i) THEN JOk(JNull, i + 4)
        ELSE IF c = "-" \/ IsDigitChar(c) THEN JParseNumber(s, i)
        ELSE JFail

JParseMembers(s, i, obj, first) ==
    LET More(e, obj2) ==
            IF CharAt(s, e) = "," THEN JParseMembers(s, JSkip(s, e + 1), obj2, FALSE)
            ELSE IF CharAt(s, e) = "}" THEN JOk(JObj(obj2), e + 1)
            ELSE JFail
        Member(k, val) ==
            IF ~val.ok THEN JFail
            ELSE More(JSkip(s, val.next), (k.val.v :> val.val) @@ obj)
        Colon(k, c) ==
            IF CharAt(s, c) # ":" THEN JFail ELSE Member(k, JParseValue(s, JSkip(s, c + 1)))
        Key(k) == IF ~k.ok THEN JFail ELSE Colon(k, JSkip(s, k.next))
    IN  IF first /\ CharAt(s, i) = "}" THEN JOk(JObj(obj), i + 1)
        ELSE IF CharAt(s, i) # "\"" THEN JFail
        ELSE Key(JScanString(s, i + 1, ""))

JParseElements(s, i, arr, first) ==
    LET More(e, arr2) ==
            IF CharAt(s, e) = "," THEN JParseElements(s, JSkip(s, e + 1), arr2, FALSE)
            ELSE IF CharAt(s, e) = "]" THEN JOk(JArr(arr2), e + 1)
            ELSE JFail
        Element(val) ==
            IF ~val.ok THEN JFail ELSE More(JSkip(s, val.next), Append(arr, val.val))
    IN  IF first /\ CharAt(s, i) = "]" THEN JOk(JArr(arr), i + 1)
        ELSE Element(JParseValue(s, i))

\* JSON.parse(text): [ok |-> FALSE] stands for the SyntaxError it throws
JSONparse(text) ==
    LET Whole(r) == IF r.ok /\ JSkip(text, r.next) > Len(text) THEN r ELSE JFail
    IN  Whole(JParseValue(text, JSkip(text, 1)))

\* value?.[key] of JavaScript: undefined for a missing key and for a value that
\* is no object (callers that read a property of null without ?. test for null)
JGet(value, key) ==
    IF value.t = "obj" /\ key \in DOMAIN value.v THEN value.v[key] ELSE JUndefined

\* value[index] for optional chaining over arrays (0-based index of the source)
JAt(value, index) ==
    IF value.t = "arr" /\ index + 1 \in DOMAIN value.v THEN value.v[index + 1] ELSE JUndefined

\* JavaScript truthiness of a parsed value
JTruthy(value) ==
    CASE value.t = "bool" -> value.v
      [] value.t = "str" -> value.v # ""
      [] value.t = "num" -> value.v \notin {"0", "-0", "0.0"}
      [] value.t \in {"obj", "arr"} -> TRUE
      [] OTHER -> FALSE

\* the characters of a string literal as JSON.stringify writes them
RECURSIVE JQuoteChars(_)
JQuoteChars(txt) ==
    LET Escaped(c) ==
            IF c = "\"" THEN "\\\""
            ELSE IF c = "\\" THEN "\\\\"
            ELSE IF c = "\n" THEN "\\n"
            ELSE IF c = "\t" THEN "\\t"
            ELSE IF c = "\r" THEN "\\r"
            ELSE c
    IN  IF txt = "" THEN ""
        ELSE Escaped(SubSeq(txt, 1, 1)) \o JQuoteChars(SubSeq(txt, 2, Len(txt)))

\* the order in which JSON.stringify writes the properties the model uses; a
\* property outside this list is written after them
PropertyOrder == <<"name", "baseUrl", "apiKey", "models", "enabled", "id">>

RECURSIVE OrderedKeys(_, _)
OrderedKeys(keys, order) ==
    IF keys = {} THEN <<>>
    ELSE IF order = <<>>
    THEN LET k == CHOOSE x \in keys : TRUE IN <<k>> \o OrderedKeys(keys \ {k}, order)
    ELSE IF Head(order) \in keys
    THEN <<Head(order)>> \o OrderedKeys(keys \ {Head(order)}, Tail(order))
    ELSE OrderedKeys(keys, Tail(order))

\* JSON.stringify(value): a property whose value is undefined is left out, an
\* undefined element is written as null
RECURSIVE JSONstringify(_)
RECURSIVE JStringifyMembers(_, _, _)
RECURSIVE JStringifyElements(_, _)
JSONstringify(value) ==
    CASE value.t = "null" -> "null"
      [] value.t = "undefined" -> "null"
      [] value.t = "bool" -> IF value.v THEN "true" ELSE "false"
      [] value.t = "num" -> value.v
      [] value.t = "str" -> "\"" \o JQuoteChars(value.v) \o "\""
      [] value.t = "arr" -> "[" \o JStringifyElements(value.v, TRUE) \o "]"
      [] value.t = "obj" ->
            "{" \o JStringifyMembers(value.v, OrderedKeys(DOMAIN value.v, PropertyOrder), TRUE) \o "}"

JStringifyMembers(obj, keys, first) ==
    IF keys = <<>> THEN ""
    ELSE IF obj[Head(keys)].t = "undefined" THEN JStringifyMembers(obj, Tail(keys), first)
    ELSE (IF first THEN "" ELSE ",")
         \o "\"" \o JQuoteChars(Head(keys)) \o "\":" \o JSONstringify(obj[Head(keys)])
         \o JStringifyMembers(obj, Tail(keys), FALSE)

JStringifyElements(arr, first) ==
    IF arr = <<>> THEN ""
    ELSE (IF first THEN "" ELSE ",") \o JSONstringify(Head(arr)) \o JStringifyElements(Tail(arr), FALSE)

(***************************************************************************)
(* Filename normalization (localInferenceService.ts 412-499; the store     *)
(* carries a textually identical copy, part_005 116-203)                   *)
(***************************************************************************)
detectContentType(content) ==
    IF Includes(content, "<html") \/ Includes(content, "<body") \/ Includes(content, "<div")
    THEN "html"
    ELSE IF /\ Includes(content, "{")
            /\ Includes(content, "}")
            /\ (Includes(content, "#") \/ Includes(content, ".") \/ Includes(content, "@"))
    THEN "css"
    ELSE IF \/ Includes(content, "function") \/ Includes(content, "const")
            \/ Includes(content, "let") \/ Includes(content, "import")
            \/ Includes(content, "export") \/ Includes(content, "React")
    THEN IF Includes(content, "React") \/ (Includes(content, "<") /\ Includes(content, "/>"))
         THEN "jsx"
         ELSE "js"
    ELSE IF \/ Includes(content, "def ") \/ Includes(content, "import ")
            \/ Includes(content, "from ") \/ Includes(content, "class ")
            \/ Includes(content, "print(")
    THEN "py"
    ELSE IF JSONparse(content).ok
    THEN "json"
    ELSE IF \/ Includes(content, "# ") \/ Includes(content, "## ")
            \/ Includes(content, Fence)
            \/ (Includes(content, "[") /\ Includes(content, "]("))
    THEN "md"
    ELSE IF \/ Includes(toUpperCase(content), "SELECT")
            \/ Includes(toUpperCase(content), "INSERT")
            \/ Includes(toUpperCase(content), "UPDATE")
            \/ Includes(toUpperCase(content), "CREATE")
    THEN "sql"
    ELSE "txt"

\* the table compatibleExtensions; a content type without a row has no valid extension
compatibleExtensions(contentType) ==
    CASE contentType \in {"js", "jsx", "ts", "tsx"} -> {"js", "jsx", "ts", "tsx"}
      [] contentType = "py" -> {"py"}
      [] contentType = "html" -> {"html", "htm"}
      [] contentType = "css" -> {"css", "scss", "sass", "less"}
      [] contentType = "json" -> {"json"}
      [] contentType = "md" -> {"md", "markdown"}
      [] OTHER -> {}

isValidExtensionForContent(extension, content) ==
    IF extension = "" THEN FALSE
    ELSE extension \in compatibleExtensions(detectContentType(content))

\* filename.split('.').pop(): the text after the last dot
LastDotPart(filename) == From(filename, LastIndexOf(filename, ".") + 1)

\* filename.replace(/\.[^.]+$/, ''): drops the last dot and what follows it, when
\* something follows it
StripExtension(filename) ==
    LET d == LastIndexOf(filename, ".")
    IN  IF d > 0 /\ d < Len(filename) THEN Slice(filename, 1, d - 1) ELSE filename

ensureProperExtension_KeepsOldExtension(filename, content) ==
    IF Includes(filename, ".") /\ isValidExtensionForContent(toLowerCase(LastDotPart(filename)), content)
    THEN filename
    ELSE filename \o "." \o detectContentType(content)

ensureProperExtension(filename, content) ==
    IF Includes(filename, ".")
    THEN IF isValidExtensionForContent(toLowerCase(LastDotPart(filename)), content)
         THEN filename
         ELSE StripExtension(filename) \o "." \o detectContentType(content)
    ELSE filename \o "." \o detectContentType(content)

(***************************************************************************)
(* Ordered path -> content maps (JavaScript objects keep insertion order): *)
(* a sequence of [path, content] records with pairwise distinct paths.     *)
(***************************************************************************)
Entry(p, c) == [path |-> p, content |-> c]

Keys(m) == [i \in DOMAIN m |-> m[i].path]

KeySet(m) == {m[i].path : i \in DOMAIN m}

PairSet(m) == {m[i] : i \in DOMAIN m}

HasKey(m, p) == \E i \in DOMAIN m : m[i].path = p

Lookup(m, p) == m[CHOOSE i \in DOMAIN m : m[i].path = p].content

\* m[p] = c: an existing key keeps its position, a new key goes last
Put(m, p, c) ==
    IF HasKey(m, p)
    THEN [i \in DOMAIN m |-> IF m[i].path = p THEN Entry(p, c) ELSE m[i]]
    ELSE Append(m, Entry(p, c))

\* { ...a, ...b } and Object.assign(a, b)
RECURSIVE Merge(_, _)
Merge(a, b) == IF b = <<>> THEN a ELSE Merge(Put(a, b[1].path, b[1].content), Tail(b))

\* delete m[p]
Remove(m, p) == SelectSeq(m, LAMBDA e : e.path # p)

NoMatch == [ok |-> FALSE]

(***************************************************************************)
(* generateFilename (localInferenceService.ts 352-410)                     *)
(***************************************************************************)
\* the table `extensions`; "" where the language has no row
LanguageExtension(language) ==
    CASE language \in {"javascript", "js"} -> "js"
      [] language = "jsx" -> "jsx"
      [] language \in {"typescript", "ts"} -> "ts"
      [] language = "tsx" -> "tsx"
      [] language \in {"python", "py"} -> "py"
      [] language \in {"html", "htm"} -> "html"
      [] language \in {"css", "scss", "sass", "less", "json", "xml", "yaml", "yml",
                       "sql", "java", "cpp", "c", "cs", "php", "rb", "go", "rs"} -> language
      [] language \in {"markdown", "md"} -> "md"
      [] language \in {"bash", "shell"} -> "sh"
      [] language = "csharp" -> "cs"
      [] language = "ruby" -> "rb"
      [] language = "rust" -> "rs"
      [] OTHER -> ""

\* length of the comment marker (?:\/\/|#|<!--|--) at position i, 0 if none
CommentMarkerLen(s, i) ==
    IF StartsAt(s, "//", i) THEN 2
    ELSE IF StartsAt(s, "#", i) THEN 1
    ELSE IF StartsAt(s, "<!--", i) THEN 4
    ELSE IF StartsAt(s, "--", i) THEN 2
    ELSE 0

\* position after (?:file|filename|name): at position i of the upper-cased text,
\* 0 if it does not match there
KeywordColonEnd(up, i) ==
    IF StartsAt(up, "FILE:", i) THEN i + 5
    ELSE IF StartsAt(up, "FILENAME:", i) THEN i + 9
    ELSE IF StartsAt(up, "NAME:", i) THEN i + 5
    ELSE 0

IsLineBreak(c) == c \in {"\n", "\r"}

\* end (exclusive) of the run [^\n\r]+ starting at i
RECURSIVE LineRunEnd(_, _)
LineRunEnd(s, i) ==
    IF i <= Len(s) /\ ~IsLineBreak(CharAt(s, i)) THEN LineRunEnd(s, i + 1) ELSE i

\* \s*([^\n\r]+) from position p: the greedy \s* gives characters back until one
\* that is no line break is left for the group
FilenameCapture(s, p) ==
    LET q == SkipSpace(s, p)
        back == {k \in p..Len(s) : ~IsLineBreak(CharAt(s, k))}
    IN  IF q <= Len(s) THEN [ok |-> TRUE, text |-> Slice(s, q, LineRunEnd(s, q) - 1)]
        ELSE IF back # {} THEN [ok |-> TRUE, text |-> Slice(s, Max(back), LineRunEnd(s, Max(back)) - 1)]
        ELSE NoMatch

\* the match of filenameRegex that starts at position i
FilenameCommentAt(s, i) ==
    LET m == CommentMarkerLen(s, i)
        k == KeywordColonEnd(toUpperCase(s), SkipSpace(s, i + m))
    IN  IF m = 0 \/ k = 0 THEN NoMatch ELSE FilenameCapture(s, k)

\* content.match(filenameRegex): the leftmost match
FilenameComment(content) ==
    LET hits == {i \in 1..Len(content) : FilenameCommentAt(content, i).ok}
    IN  IF hits = {} THEN NoMatch ELSE FilenameCommentAt(content, Min(hits))

\* decimal text of a small natural number
RECURSIVE NatToString(_)
NatToString(n) ==
    IF n < 10 THEN CharAt(Digits, n + 1)
    ELSE NatToString(n \div 10) \o CharAt(Digits, (n % 10) + 1)

\* the names without the hints of lines 402-407: always language, number, extension
generateFilename_Plain(language, index, content) ==
    LET Named(named) ==
            IF named.ok THEN trim(named.text)
            ELSE language \o NatToString(index + 1) \o "."
                 \o (IF LanguageExtension(language) = "" THEN "txt" ELSE LanguageExtension(language))
    IN  Named(FilenameComment(content))

generateFilename(language, index, content) ==
    LET ext == IF LanguageExtension(language) = "" THEN "txt" ELSE LanguageExtension(language)
        number == NatToString(index + 1)
        Named(named) ==
            IF named.ok THEN trim(named.text)
            ELSE IF language = "html" /\ index = 0 THEN "index.html"
            ELSE IF language = "css" /\ index = 0 THEN "styles.css"
            ELSE IF language \in {"javascript", "js"} /\ Includes(content, "React")
            THEN "component" \o number \o ".jsx"
            ELSE IF /\ language \in {"javascript", "js"}
                    /\ (Includes(content, "function") \/ Includes(content, "const") \/ Includes(content, "let"))
            THEN "script" \o number \o ".js"
            ELSE language \o number \o "." \o ext
    IN  Named(FilenameComment(content))

(***************************************************************************)
(* extractCodeBlocks (localInferenceService.ts 332-350)                    *)
(***************************************************************************)
RECURSIVE WordRunEnd(_, _)
WordRunEnd(s, i) == IF IsWordChar(CharAt(s, i)) THEN WordRunEnd(s, i + 1) ELSE i

\* the match of codeBlockRegex  ```(\w+)?\s*\n([\s\S]*?)```  that starts at i
CodeBlockAt(s, i) ==
    LET closing(nl) == IndexFrom(s, Fence, nl + 1)
        Match(w, nl, close) ==
            [ok |-> TRUE,
             language |-> Slice(s, i + 3, w - 1),
             content |-> Slice(s, nl + 1, close - 1),
             end |-> close + 3]
        Lines(w, nls) ==
            IF ~StartsAt(s, Fence, i) \/ nls = {} THEN NoMatch
            ELSE Match(w, Max(nls), closing(Max(nls)))
        Word(w) ==
            Lines(w, {k \in w..(SkipSpace(s, w) - 1) : CharAt(s, k) = "\n" /\ closing(k) # 0})
    IN  Word(WordRunEnd(s, i + 3))

\* codeBlockRegex.exec(text) with lastIndex = from - 1
RECURSIVE NextCodeBlock(_, _)
NextCodeBlock(s, from) ==
    LET Try(f, m) == IF m.ok THEN m ELSE NextCodeBlock(s, f + 1)
        At(f) == IF f = 0 THEN NoMatch ELSE Try(f, CodeBlockAt(s, f))
    IN  At(IndexFrom(s, Fence, from))

RECURSIVE CodeBlocksFrom(_, _, _, _)
CodeBlocksFrom(text, from, blockIndex, files) ==
    LET Block(m, language, content) ==
            IF Len(content) > 10
            THEN CodeBlocksFrom(text, m.end, blockIndex + 1,
                                Put(files, generateFilename(language, blockIndex, content), content))
            ELSE CodeBlocksFrom(text, m.end, blockIndex, files)
        Found(m) ==
            IF ~m.ok THEN files
            ELSE Block(m, IF m.language = "" THEN "text" ELSE toLowerCase(m.language), trim(m.content))
    IN  Found(NextCodeBlock(text, from))

extractCodeBlocks(text) == CodeBlocksFrom(text, 1, 0, <<>>)

(***************************************************************************)
(* extractFiles (localInferenceService.ts 307-330)                         *)
(***************************************************************************)
IsFileNameChar(c) == IsWordChar(c) \/ c \in {"/", ".", "-"}

RECURSIVE FileNameRunEnd(_, _)
FileNameRunEnd(s, i) == IF IsFileNameChar(CharAt(s, i)) THEN FileNameRunEnd(s, i + 1) ELSE i

RECURSIVE LetterRunEnd(_, _)
LetterRunEnd(s, i) ==
    IF IsLowerChar(CharAt(s, i)) \/ IsUpperChar(CharAt(s, i)) THEN LetterRunEnd(s, i + 1) ELSE i

\* length of (?:\n?```|\n?\[\/FILE\]|$) at position j, -1 if it does not match there
FileTerminatorLen(s, up, j) ==
    IF StartsAt(s, "\n" \o Fence, j) THEN 4
    ELSE IF StartsAt(s, Fence, j) THEN 3
    ELSE IF StartsAt(up, "\n[/FILE]", j) THEN 8
    ELSE IF StartsAt(up, "[/FILE]", j) THEN 7
    ELSE IF j = Len(s) + 1 THEN 0
    ELSE -1

\* the match of fileRegex that starts at i (up is the upper-cased text: the i flag)
FileBlockAt(s, up, i) ==
    LET Match(a, nameEnd, start, j) ==
            IF ~StartsAt(up, "[FILE:", i) \/ nameEnd = a \/ CharAt(s, nameEnd) # "]" THEN NoMatch
            ELSE [ok |-> TRUE,
                  name |-> Slice(s, a, nameEnd - 1),
                  content |-> Slice(s, start, j - 1),
                  end |-> j + FileTerminatorLen(s, up, j)]
        Content(a, nameEnd, start) ==
            Match(a, nameEnd, start, Min({k \in start..(Len(s) + 1) : FileTerminatorLen(s, up, k) >= 0}))
        Opening(a, nameEnd, b, tagEnd) ==
            Content(a, nameEnd, IF StartsAt(s, Fence, b) /\ CharAt(s, tagEnd) = "\n" THEN tagEnd + 1 ELSE b)
        Bracket(a, nameEnd, b) == Opening(a, nameEnd, b, LetterRunEnd(s, b + 3))
        Name(a, nameEnd) == Bracket(a, nameEnd, SkipSpace(s, nameEnd + 1))
        Tag(a) == Name(a, FileNameRunEnd(s, a))
    IN  Tag(SkipSpace(s, i + 6))

RECURSIVE NextFileBlock(_, _, _)
NextFileBlock(s, up, from) ==
    LET Try(h, m) == IF m.ok THEN m ELSE NextFileBlock(s, up, h + 1)
        At(h) == IF h = 0 THEN NoMatch ELSE Try(h, FileBlockAt(s, up, h))
    IN  At(IndexFrom(up, "[FILE:", from))

RECURSIVE FileBlocksFrom(_, _, _)
FileBlocksFrom(text, from, files) ==
    LET Block(m, filename, content) ==
            FileBlocksFrom(text, m.end, Put(files, ensureProperExtension(filename, content), content))
        Found(m) == IF ~m.ok THEN files ELSE Block(m, trim(m.name), trim(m.content))
    IN  Found(NextFileBlock(text, toUpperCase(text), from))

extractFiles(text) ==
    LET Fallback(files) ==
            IF Len(files) = 0 THEN Merge(files, extractCodeBlocks(text)) ELSE files
    IN  Fallback(FileBlocksFrom(text, 1, <<>>))

(***************************************************************************)
(* processAICodeActions (part_005 6-33): the directives it submits to the  *)
(* file-system collaborator, in the order of submission                    *)
(***************************************************************************)
\* the match of  \[TAG:\s*([^\]]+)\]\s*\n([\s\S]*?)\n\[\/TAG\]  that starts at i
DirectiveAt(s, tag, i) ==
    LET open == "[" \o tag \o ":"
        close == "\n[/" \o tag \o "]"
        closing(nl) == IndexFrom(s, close, nl + 1)
        Match(q, r, nl, end) ==
            [ok |-> TRUE,
             filePath |-> Slice(s, q, r - 1),
             content |-> Slice(s, nl + 1, end - 1),
             end |-> end + Len(close)]
        Lines(p, q, r, nls) ==
            IF ~StartsAt(s, open, i) \/ r <= p \/ nls = {} THEN NoMatch
            ELSE Match(q, r, Max(nls), closing(Max(nls)))
        Path(p, q, r) ==
            Lines(p, IF q < r THEN q ELSE r - 1, r,
                  {k \in (r + 1)..(SkipSpace(s, r + 1) - 1) : CharAt(s, k) = "\n" /\ closing(k) # 0})
        Tag(p) == Path(p, SkipSpace(s, p), IndexFrom(s, "]", p))
    IN  Tag(i + Len(open))

RECURSIVE NextDirective(_, _, _)
NextDirective(s, tag, from) ==
    LET Try(h, m) == IF m.ok THEN m ELSE NextDirective(s, tag, h + 1)
        At(h) == IF h = 0 THEN NoMatch ELSE Try(h, DirectiveAt(s, tag, h))
    IN  At(IndexFrom(s, "[" \o tag \o ":", from))

\* the executeAIOperation calls of one while loop
RECURSIVE DirectivesFrom(_, _, _, _)
DirectivesFrom(text, tag, operation, from) ==
    LET Found(m) ==
            IF ~m.ok THEN <<>>
            ELSE <<[operation |-> operation, path |-> trim(m.filePath), content |-> trim(m.content)]>>
                 \o DirectivesFrom(text, tag, operation, m.end)
    IN  Found(NextDirective(text, tag, from))

processAICodeActions(aiResponse) ==
    DirectivesFrom(aiResponse, "CREATE", "create", 1) \o DirectivesFrom(aiResponse, "MODIFY", "write", 1)

(***************************************************************************)
(* Bounds of the model                                                     *)
(***************************************************************************)
\* ensureProperExtension is applied at most this many times in a row
MaxApplications == 2

\* a model output holds at most this many blocks
MaxBlocks == 2

\* orchestrations started in one run of the session
MaxOrch == 2

\* editor edits and deletions in one run of the session
MaxUserSteps == 1

\* settings operations (selections, edits, saves, page reloads) in one run of the registry
MaxRegistrySteps == 2

\* lines of one response body
MaxLines == 3

\* bytes of a chunk that ends in the middle of a line
ChunkSplit == 9

(***************************************************************************)
(* State                                                                   *)
(***************************************************************************)
VARIABLES
    \* --- filename normalization called on its own
    nOrig,      \* the filename given
    nContent,   \* the content given
    nName,      \* the filename after nCount applications
    nCount,     \* number of applications so far
    \* --- the file-action extractor called on its own
    xText,      \* the model output given
    xCalled,    \* which of the two parsers have run
    xFiles,     \* what extractFiles returned
    xActions,   \* what processAICodeActions submitted
    \* --- the session store (part_005 659-770) and its collaborators
    files,          \* FileMap, an ordered map
    activeFile,
    messages,       \* conversation log
    isLoading,      \* inference.isLoading
    fsOps,          \* executeAIOperation requests the collaborator received
    userSteps,      \* editor edits and deletions so far
    pc,             \* per orchestration: where its async function stands
    oMode,          \* per orchestration: the mode it was started in
    oOutput,        \* per orchestration: codeOutput
    oNext,          \* per orchestration: directives submitted, or plan lines written, so far
    oPatches,       \* per orchestration: patches = extractFiles(codeOutput)
    liveWritingFile,    \* the live-writing flag, "null" or a file name
    statusLog,
    isLoaded,       \* inference.isLoaded
    hasProvider,    \* getActiveProvider() is not null during the session
    now,            \* the instant the clock shows, an index of Clock
    sent,           \* generateLocalResponse calls that went out to a provider
    oFailed,        \* per orchestration: the directives the collaborator failed
    oPlanFile,      \* per orchestration: planFileName
    oFiles          \* per orchestration: the files that handlePlanMode read at line 439

varsNormalize == <<nOrig, nContent, nName, nCount>>
varsExtract == <<xText, xCalled, xFiles, xActions>>
varsSession == <<files, activeFile, messages, isLoading, fsOps, userSteps,
                 pc, oMode, oOutput, oNext, oPatches,
                 liveWritingFile, statusLog, isLoaded, hasProvider, now, sent,
                 oFailed, oPlanFile, oFiles>>

Orchs == 1..MaxOrch

(***************************************************************************)
(* Filename normalization on its own                                       *)
(***************************************************************************)
Filenames ==
    {"", "a", "a.js", "A.JS", "a.md", "a.", "a..txt", "a.b.css", "src/app.tsx",
     ".env", "data.json", "q.sql", "page.htm"}

Contents ==
    {"<div>hi</div>",
     ".a { color: red; }",
     "const x = 1;",
     "const A = () => <B />;",
     "def f():\n  pass",
     "{\"a\": 1}",
     "# Title",
     "select 1",
     "hello"}

NormalizeIdle == nOrig = "" /\ nContent = "" /\ nName = "" /\ nCount = 0

InitNormalize ==
    /\ nOrig \in Filenames
    /\ nContent \in Contents
    /\ nName = nOrig
    /\ nCount = 0

\* filename := ensureProperExtension(filename, content)
Normalize ==
    /\ nCount < MaxApplications
    /\ nName' = ensureProperExtension(nName, nContent)
    /\ nCount' = nCount + 1
    /\ UNCHANGED <<nOrig, nContent>>

(***************************************************************************)
(* The file-action extractor on its own                                    *)
(***************************************************************************)
BlockPaths == {"a.js", "b.css"}

BlockBodies == {"const x = 1;", ".a { color: red; }\n"}

CreateBlock(p, c) == "[CREATE: " \o p \o "]\n" \o c \o "\n[/CREATE]"
ModifyBlock(p, c) == "[MODIFY: " \o p \o "]\n" \o c \o "\n[/MODIFY]"
FileBlock(p, c) == "[FILE: " \o p \o "]\n" \o c \o "\n[/FILE]"
FencedBlock(language, c) == Fence \o language \o "\n" \o c \o "\n" \o Fence

Blocks ==
    {CreateBlock(p, c) : p \in BlockPaths, c \in BlockBodies}
    \cup {ModifyBlock(p, c) : p \in BlockPaths, c \in BlockBodies}
    \cup {FileBlock(p, c) : p \in BlockPaths, c \in BlockBodies}
    \cup {FencedBlock(l, c) : l \in {"js", "python"}, c \in {"short", "print('hello world')"}}

RECURSIVE JoinBlocks(_)
JoinBlocks(seq) ==
    IF seq = <<>> THEN ""
    ELSE IF Len(seq) = 1 THEN seq[1]
    ELSE seq[1] \o "\n" \o JoinBlocks(Tail(seq))

BlockSeqs == UNION {[1..n -> Blocks] : n \in 0..MaxBlocks}

ModelOutputs == {JoinBlocks(seq) : seq \in BlockSeqs}

ExtractIdle == xText = "" /\ xCalled = {} /\ xFiles = <<>> /\ xActions = <<>>

InitExtract ==
    /\ xText \in ModelOutputs
    /\ xCalled = {}
    /\ xFiles = <<>>
    /\ xActions = <<>>

\* model outputs that hold fenced code blocks only
FencedLanguages == {"python", "html", "css", "js", ""}

FencedBodies ==
    {"short",
     "print('hello from a body of fifty characters....')",
     "const x = 1;",
     "# file: app.py\nprint('hello')"}

FencedSeqs == UNION {[1..n -> FencedLanguages \X FencedBodies] : n \in 0..MaxBlocks}

FencedText(seq) == JoinBlocks([i \in DOMAIN seq |-> FencedBlock(seq[i][1], seq[i][2])])

InitFenced ==
    /\ xText \in {FencedText(seq) : seq \in FencedSeqs}
    /\ xCalled = {}
    /\ xFiles = <<>>
    /\ xActions = <<>>

CallExtractFiles ==
    /\ "extractFiles" \notin xCalled
    /\ xFiles' = extractFiles(xText)
    /\ xCalled' = xCalled \cup {"extractFiles"}
    /\ UNCHANGED <<xText, xActions>>

CallProcessAICodeActions ==
    /\ "processAICodeActions" \notin xCalled
    /\ xActions' = processAICodeActions(xText)
    /\ xCalled' = xCalled \cup {"processAICodeActions"}
    /\ UNCHANGED <<xText, xFiles>>


(***************************************************************************)
(* The session store (part_005 205-770)                                    *)
(***************************************************************************)
\* INITIAL_PROJECT (part_005 222-339).  Each content is an excerpt of the file's
\* text in the source: lines of it that hold the substrings by which
\* detectContentType decides on the whole text.
INITIAL_PROJECT ==
    << Entry("index.html", "<!DOCTYPE html>\n<html lang=\"en\">\n</html>"),
       Entry("styles.css", "/* Custom styles for the project */\n\n.container {\n    max-width: 1200px;\n}"),
       Entry("script.js", "document.addEventListener('DOMContentLoaded', function() {\n    console.log('Project initialized!');\n});"),
       Entry("README.md", "# My Project\n\n- Interactive JavaScript functionality\n") >>

\* ensureProperFilename (part_005 116-135), with the store's own copies of
\* isValidExtensionForContent and detectContentType (part_005 137-203), which are
\* the text of the service's
ensureProperFilename(filename, content) ==
    IF Includes(filename, ".")
    THEN IF isValidExtensionForContent(toLowerCase(LastDotPart(filename)), content)
         THEN filename
         ELSE StripExtension(filename) \o "." \o detectContentType(content)
    ELSE filename \o "." \o detectContentType(content)

\* the body of setFiles: validatedFiles[ensureProperFilename(name, content)] = content
RECURSIVE ValidatedFiles(_, _)
ValidatedFiles(newFiles, validatedFiles) ==
    IF newFiles = <<>> THEN validatedFiles
    ELSE ValidatedFiles(Tail(newFiles),
                        Put(validatedFiles,
                            ensureProperFilename(newFiles[1].path, newFiles[1].content),
                            newFiles[1].content))

setFiles(newFiles) == ValidatedFiles(newFiles, <<>>)

\* what the user types into the editor
EditorTexts == {"const x = 1;", "hello"}

\* the modes of a request that the model follows
Modes == {"ask", "agent"}

\* the four modes of orchestrate's switch (part_005 745-758)
AllModes == {"ask", "plan", "agent", "debug"}

\* if (!provider) return '...' (multiProviderService.ts 309-312)
NoProviderText == "No AI provider configured. Please check your settings."

\* what the model answers to a question
Answers == {"Done.", "[FILE: a.js]\nconst x = 1;\n[/FILE]"}

\* what the model answers to the code generation prompt
SessionOutputs ==
    {"Done.",
     CreateBlock("a.js", "const x = 1;") \o "\n" \o ModifyBlock("b.css", ".a { color: red; }"),
     FileBlock("a.js", "const x = 1;") \o "\n" \o FileBlock("notes", "hello"),
     FencedBlock("python", "print('hello world')")}

Message(role, content, mode) == [role |-> role, content |-> content, mode |-> mode]

UserRequest == "add a button"

SessionIdle ==
    /\ files = <<>>
    /\ activeFile = ""
    /\ messages = <<>>
    /\ isLoading = FALSE
    /\ fsOps = <<>>
    /\ userSteps = 0
    /\ pc = [o \in Orchs |-> "idle"]
    /\ oMode = [o \in Orchs |-> "none"]
    /\ oOutput = [o \in Orchs |-> ""]
    /\ oNext = [o \in Orchs |-> 0]
    /\ oPatches = [o \in Orchs |-> <<>>]
    /\ liveWritingFile = "null"
    /\ statusLog = <<>>
    /\ isLoaded = FALSE
    /\ hasProvider = FALSE
    /\ now = 1
    /\ sent = 0
    /\ oFailed = [o \in Orchs |-> {}]
    /\ oPlanFile = [o \in Orchs |-> ""]
    /\ oFiles = [o \in Orchs |-> <<>>]

\* the store as create() builds it (part_005 659-672)
InitStore ==
    /\ files = INITIAL_PROJECT
    /\ activeFile = "index.html"
    /\ messages = <<>>
    /\ isLoading = FALSE
    /\ fsOps = <<>>
    /\ userSteps = 0
    /\ pc = [o \in Orchs |-> "idle"]
    /\ oMode = [o \in Orchs |-> "none"]
    /\ oOutput = [o \in Orchs |-> ""]
    /\ oNext = [o \in Orchs |-> 0]
    /\ oPatches = [o \in Orchs |-> <<>>]
    /\ liveWritingFile = "null"
    /\ statusLog = <<>>
    /\ now = 1
    /\ sent = 0
    /\ oFailed = [o \in Orchs |-> {}]
    /\ oPlanFile = [o \in Orchs |-> ""]
    /\ oFiles = [o \in Orchs |-> <<>>]

\* the session of a user who has an active provider
InitSession ==
    /\ InitStore
    /\ isLoaded = FALSE
    /\ hasProvider = TRUE

orchVars == <<pc, oMode, oOutput, oNext, oPatches>>

\* the instants of a session, as new Date().toISOString() gives them: two of
\* the same minute and one of the next
Clock == << "2024-01-15T10:30:45.123Z", "2024-01-15T10:30:52.731Z", "2024-01-15T10:31:07.002Z" >>

auxVars == <<liveWritingFile, statusLog, isLoaded, hasProvider, now, sent, oFailed, oPlanFile, oFiles>>

\* setActiveFile(path), from the file tree
SetActiveFile ==
    \E path \in KeySet(files) :
        /\ path # activeFile
        /\ userSteps < MaxUserSteps
        /\ userSteps' = userSteps + 1
        /\ activeFile' = path
        /\ UNCHANGED <<files, messages, isLoading, fsOps, orchVars, auxVars>>

\* the editor's onChange (part_004 288): setFiles({ ...files, [activeFile]: content })
EditorChange ==
    \E content \in EditorTexts :
        /\ userSteps < MaxUserSteps
        /\ userSteps' = userSteps + 1
        /\ files' = setFiles(Put(files, activeFile, content))
        /\ UNCHANGED <<activeFile, messages, isLoading, fsOps, orchVars, auxVars>>

\* deleteFile(path) (part_005 711-716)
DeleteFile ==
    \E path \in KeySet(files) :
        /\ userSteps < MaxUserSteps
        /\ userSteps' = userSteps + 1
        /\ IF Len(files) <= 1
           THEN UNCHANGED <<files, activeFile>>
           ELSE /\ files' = Remove(files, path)
                /\ activeFile' = IF activeFile = path THEN Remove(files, path)[1].path ELSE activeFile
        /\ UNCHANGED <<messages, isLoading, fsOps, orchVars, auxVars>>

\* clearChat() (part_005 709)
ClearChat ==
    /\ messages # <<>>
    /\ userSteps < MaxUserSteps
    /\ userSteps' = userSteps + 1
    /\ messages' = <<>>
    /\ UNCHANGED <<files, activeFile, isLoading, fsOps, orchVars, auxVars>>

\* an orchestrate that starts the log anew
WithUserMessage_Reset(log, userMsg) == << userMsg >>

\* set({ messages: [...messages, userMsg] }) with the messages that get() has
\* just returned (part_005 719-723)
WithUserMessage(log, userMsg) == Append(log, userMsg)

\* handleSubmit (part_001 45-50) calls orchestrate(content, mode), which runs up to
\* its first await (part_005 718-728)
Orchestrate(o, mode) ==
    /\ pc[o] = "idle"
    /\ o > 1 => pc[o - 1] # "idle"
    /\ ~isLoading
    /\ isLoaded
    /\ messages' = WithUserMessage(messages, Message("user", UserRequest, mode))
    /\ oMode' = [oMode EXCEPT ![o] = mode]
    /\ pc' = [pc EXCEPT ![o] = "context"]
    /\ UNCHANGED <<files, activeFile, isLoading, fsOps, userSteps, oOutput, oNext, oPatches, auxVars>>

OrchestrateStart(o) == \E mode \in Modes : Orchestrate(o, mode)

\* the first status line of each handler (part_005 342, 381, 528, 615)
FirstLog(mode) ==
    CASE mode = "ask" -> "Processing Question with Rich Context"
      [] mode = "plan" -> "Creating Implementation Plan - Writing to PLAN.md"
      [] mode = "agent" -> "Analyzing Request with AI Context"
      [] mode = "debug" -> "Performing Intelligent Code Analysis"

\* new Date().toISOString() and new Date().toLocaleString() when a plan is asked for
ISOTime == Clock[now]

\* time passes
Tick ==
    /\ now < Len(Clock)
    /\ now' = now + 1
    /\ UNCHANGED <<files, activeFile, messages, isLoading, fsOps, userSteps, orchVars,
                   liveWritingFile, statusLog, isLoaded, hasProvider, sent, oFailed, oPlanFile, oFiles>>

LocaleTime == "1/15/2024, 10:30:45 AM"

\* `PLAN_${timestamp}.md` with timestamp = iso.slice(0, 16).replace('T', '_')
\* (part_005 388-389)
planFileName(iso) ==
    LET timestamp == Slice(iso, 1, 16)
        at == IndexFrom(timestamp, "T", 1)
    IN  "PLAN_"
        \o (IF at = 0 THEN timestamp
            ELSE Slice(timestamp, 1, at - 1) \o "_" \o From(timestamp, at + 1))
        \o ".md"

\* initialPlanContent (part_005 419-430)
initialPlanContent(content) ==
    "# Implementation Plan: " \o content \o "\n\n"
    \o "*Plan generated on " \o LocaleTime \o "*\n\n"
    \o "## Analyzing Requirements...\n\n"
    \o "*AI is analyzing the task and generating a comprehensive implementation plan...*\n\n"
    \o "---\n"
    \o "*This plan is being written live by the AI. Watch as the content appears below.*\n"
    \o "---\n\n"

\* a generateLocalResponse call goes out to the active provider, if there is one
Sent == IF hasProvider THEN sent + 1 ELSE sent

\* what generateLocalResponse resolves to when the provider would answer with
\* one of texts
Responses(texts) == IF hasProvider THEN texts ELSE {NoProviderText}

\* distillProject has resolved: orchestrate resets the status log, sets isLoading
\* and enters the mode's handler, which runs to its first await: the
\* generateLocalResponse call, or in plan mode the createFile request
\* (part_005 734-762, 341-364, 379-436, 525-552, 614-644)
OrchestrateContext(o) ==
    /\ pc[o] = "context"
    /\ isLoading' = TRUE
    /\ statusLog' = << "Initializing " \o toUpperCase(oMode[o]) \o " mode...", FirstLog(oMode[o]) >>
    /\ IF oMode[o] = "plan"
       THEN /\ oPlanFile' = [oPlanFile EXCEPT ![o] = planFileName(ISOTime)]
            /\ fsOps' = Append(fsOps, [by |-> o, operation |-> "createFile",
                                       path |-> planFileName(ISOTime),
                                       content |-> initialPlanContent(UserRequest)])
            /\ pc' = [pc EXCEPT ![o] = "creating"]
            /\ UNCHANGED sent
       ELSE /\ sent' = Sent
            /\ pc' = [pc EXCEPT ![o] = IF oMode[o] = "agent" THEN "analysis" ELSE "answer"]
            /\ UNCHANGED <<fsOps, oPlanFile>>
    /\ UNCHANGED <<files, activeFile, messages, userSteps, oMode, oOutput, oNext, oPatches,
                   liveWritingFile, isLoaded, hasProvider, now, oFailed, oFiles>>

\* a handler that appends its response twice
AnswerMessages_Twice(response, mode) ==
    << Message("assistant", response, mode), Message("assistant", response, mode) >>

\* the messages handleAskMode and handleDebugMode append for a response
\* (part_005 366-376, 646-656)
AnswerMessages(response, mode) == << Message("assistant", response, mode) >>

\* handleAskMode / handleDebugMode: the response arrives and is appended; then
\* orchestrate's finally block (part_005 366-376, 646-656, 766-768)
AnswerArrives(o) ==
    \E response \in Responses(Answers) :
        /\ pc[o] = "answer"
        /\ messages' = messages \o AnswerMessages(response, oMode[o])
        /\ isLoading' = FALSE
        /\ pc' = [pc EXCEPT ![o] = "done"]
        /\ UNCHANGED <<files, activeFile, fsOps, userSteps, oMode, oOutput, oNext, oPatches, auxVars>>

\* handleAgentMode: the requirements analysis arrives, the code generation call
\* is issued (part_005 552-589)
AgentRequirements(o) ==
    /\ pc[o] = "analysis"
    /\ pc' = [pc EXCEPT ![o] = "codegen"]
    /\ statusLog' = Append(statusLog, "Generating Framework-Aware Code")
    /\ sent' = Sent
    /\ UNCHANGED <<files, activeFile, messages, isLoading, fsOps, userSteps, oMode, oOutput, oNext, oPatches,
                   liveWritingFile, isLoaded, hasProvider, now, oFailed, oPlanFile, oFiles>>

\* the executeAIOperation request of directive k of orchestration o
Submission(o, directive) ==
    [by |-> o, operation |-> directive.operation, path |-> directive.path, content |-> directive.content]

\* keys.join(', ')
RECURSIVE Join(_, _)
Join(seq, separator) ==
    IF seq = <<>> THEN ""
    ELSE IF Len(seq) = 1 THEN seq[1]
    ELSE seq[1] \o separator \o Join(Tail(seq), separator)

\* handleAgentMode after processAICodeActions (part_005 594-611) and orchestrate's
\* finally block
AgentFinish(o, codeOutput) ==
    LET Apply(patches) ==
            /\ oPatches' = [oPatches EXCEPT ![o] = patches]
            /\ IF Len(patches) > 0
               THEN /\ files' = Merge(files, patches)
                    /\ activeFile' = patches[1].path
                    /\ statusLog' = Append(statusLog, "Created/Updated: " \o Join(Keys(patches), ", "))
               ELSE UNCHANGED <<files, activeFile, statusLog>>
    IN  /\ Apply(extractFiles(codeOutput))
        /\ messages' = Append(messages, Message("assistant", codeOutput, "agent"))
        /\ isLoading' = FALSE
        /\ pc' = [pc EXCEPT ![o] = "done"]

\* codeOutput arrives; processAICodeActions runs to its first executeAIOperation,
\* or, with no directive in the output, the handler runs to its end
AgentCodeArrives(o) ==
    \E codeOutput \in Responses(SessionOutputs) :
        LET Submit(directives) ==
                IF directives = <<>>
                THEN /\ AgentFinish(o, codeOutput)
                     /\ UNCHANGED <<fsOps, oNext>>
                ELSE /\ fsOps' = Append(fsOps, Submission(o, directives[1]))
                     /\ oNext' = [oNext EXCEPT ![o] = 1]
                     /\ pc' = [pc EXCEPT ![o] = "applying"]
                     /\ UNCHANGED <<files, activeFile, messages, isLoading, oPatches, statusLog>>
        IN  /\ pc[o] = "codegen"
            /\ oOutput' = [oOutput EXCEPT ![o] = codeOutput]
            /\ Submit(processAICodeActions(codeOutput))
            /\ UNCHANGED <<userSteps, oMode, liveWritingFile, isLoaded, hasProvider, now, sent,
                           oFailed, oPlanFile, oFiles>>

\* the directives whose request the collaborator has failed so far
Failed(failed, k, succeeded) == IF succeeded THEN failed ELSE failed \cup {k}

\* a batch that lets the collaborator's error through
Caught_Rethrown(succeeded) == succeeded

\* whether processAICodeActions goes on after the collaborator's answer to a
\* directive: an error is caught and logged to the console (part_005 18-20, 29-31)
Caught(succeeded) == TRUE

\* the collaborator answers a directive, with success or with an error; the next
\* directive is submitted, or the handler runs to its end
AgentDirectiveAnswered(o) ==
    \E succeeded \in BOOLEAN :
        LET Continue(directives) ==
                IF oNext[o] < Len(directives)
                THEN /\ fsOps' = Append(fsOps, Submission(o, directives[oNext[o] + 1]))
                     /\ oNext' = [oNext EXCEPT ![o] = oNext[o] + 1]
                     /\ UNCHANGED <<files, activeFile, messages, isLoading, pc, oPatches, statusLog>>
                ELSE /\ AgentFinish(o, oOutput[o])
                     /\ UNCHANGED <<fsOps, oNext>>
            Abort ==
                /\ statusLog' = Append(statusLog, "ERR: Network error")
                /\ isLoading' = FALSE
                /\ pc' = [pc EXCEPT ![o] = "done"]
                /\ UNCHANGED <<files, activeFile, messages, fsOps, oNext, oPatches>>
        IN  /\ pc[o] = "applying"
            /\ oFailed' = [oFailed EXCEPT ![o] = Failed(oFailed[o], oNext[o], succeeded)]
            /\ IF Caught(succeeded) THEN Continue(processAICodeActions(oOutput[o])) ELSE Abort
            /\ UNCHANGED <<userSteps, oMode, oOutput, liveWritingFile, isLoaded, hasProvider, now,
                           sent, oPlanFile, oFiles>>

(***************************************************************************)
(* The provider registry (multiProviderService.ts 26-169) and the settings *)
(* panel that drives it (components/SettingsPanel.tsx 9-28, 131-134).      *)
(* A provider record is the function from its property names to JSON       *)
(* values.  The objects of DEFAULT_PROVIDERS live as long as the page; a    *)
(* loaded list holds, per provider, either that very object (idx > 0) or a  *)
(* fresh object { ...defaultProvider, ...savedProvider } (idx = 0).         *)
(***************************************************************************)
VARIABLES
    storage,     \* localStorage item 'ai-providers': [present, text]
    defaults,    \* the objects of DEFAULT_PROVIDERS as they are now
    panelOpen,   \* SettingsPanel is shown
    providers,   \* SettingsPanel state `providers`
    loaded,      \* the records the last getAvailableProviders() returned
    active,      \* the name of what the last getActiveProvider() returned, "null" for null
    lastCall,    \* the registry operation that ran last
    requested,   \* the name given to the last setActiveProvider, "none" before the first
    selected,    \* the same, when the write of that call reached the storage, else "none"
    regSteps     \* settings operations so far

varsRegistry == <<storage, defaults, panelOpen, providers, loaded, active, lastCall,
                  requested, selected, regSteps>>

ProviderRecord(name, baseUrl, modelId, enabled) ==
    [name |-> JStr(name), baseUrl |-> JStr(baseUrl),
     models |-> JArr(<<JObj([id |-> JStr(modelId)])>>), enabled |-> JBool(enabled)]

\* DEFAULT_PROVIDERS (multiProviderService.ts 26-124); of each model catalog the
\* first entry, of the built-in OpenRouter credential its prefix
DEFAULT_PROVIDERS ==
    << ProviderRecord("Ollama", "http://localhost:11434", "qwen2.5:0.5b", TRUE),
       ("apiKey" :> JStr("sk-or-v1")) @@
           ProviderRecord("OpenRouter", "https://openrouter.ai/api/v1", "openai/gpt-oss-120b:free", FALSE),
       ProviderRecord("OpenAI", "https://api.openai.com/v1", "gpt-4o", FALSE),
       ProviderRecord("Anthropic", "https://api.anthropic.com/v1", "claude-3-5-sonnet-20241022", FALSE) >>

\* DEFAULT_PROVIDERS of the earlier build (localInferenceService.ts 36-64), which
\* wrote its list under the same storage key
LEGACY_PROVIDERS ==
    << ProviderRecord("Ollama", "http://localhost:11434", "qwen2.5:0.5b", TRUE),
       ProviderRecord("OpenAI", "https://api.openai.com/v1", "gpt-4o", FALSE),
       ProviderRecord("Anthropic", "https://api.anthropic.com/v1", "claude-3-5-sonnet-20241022", FALSE) >>

ProviderNames == {DEFAULT_PROVIDERS[i].name.v : i \in DOMAIN DEFAULT_PROVIDERS}

Ref(i) == [idx |-> i, val |-> <<>>]
Own(record) == [idx |-> 0, val |-> record]

\* the record a handle stands for
Deref(h, defs) == IF h.idx > 0 THEN defs[h.idx] ELSE h.val

Records(hs, defs) == [k \in DOMAIN hs |-> Deref(hs[k], defs)]

\* return DEFAULT_PROVIDERS
DefaultHandles == [i \in DOMAIN DEFAULT_PROVIDERS |-> Ref(i)]

\* parsed.find((p) => p.name === name): the index of the first element with that
\* name, 0 when there is none, -1 for the TypeError of reading a property of null
RECURSIVE FindByName(_, _, _)
FindByName(arr, name, k) ==
    IF k > Len(arr) THEN 0
    ELSE IF arr[k].t = "null" THEN -1
    ELSE IF JGet(arr[k], "name") = JStr(name) THEN k
    ELSE FindByName(arr, name, k + 1)

\* { ...defaultProvider, ...savedProvider }
Overlay(defaultProvider, savedProvider) == savedProvider.v @@ defaultProvider

\* loadProviderConfigs (multiProviderService.ts 127-142): every exception of the
\* try block (JSON.parse, find on what is no array, p.name of null) ends in
\* return DEFAULT_PROVIDERS
loadProviderConfigs(store, defs) ==
    LET Found(i, arr, k) == IF k = 0 THEN Ref(i) ELSE Own(Overlay(defs[i], arr[k]))
        Merged(parsed) ==
            IF ~parsed.ok THEN DefaultHandles
            ELSE IF parsed.val.t # "arr" THEN DefaultHandles
            ELSE IF \E i \in DOMAIN defs : FindByName(parsed.val.v, defs[i].name.v, 1) = -1
            THEN DefaultHandles
            ELSE [i \in DOMAIN defs |->
                     Found(i, parsed.val.v, FindByName(parsed.val.v, defs[i].name.v, 1))]
    IN  IF ~store.present \/ store.text = "" THEN DefaultHandles
        ELSE Merged(JSONparse(store.text))

\* JSON.stringify(configs)
Serialized(hs, defs) == JSONstringify(JArr([k \in DOMAIN hs |-> JObj(Deref(hs[k], defs))]))

\* providers.find(p => p.enabled) || null, by name
FirstEnabled(records) ==
    LET on == {k \in DOMAIN records : JTruthy(JGet(JObj(records[k]), "enabled"))}
    IN  IF on = {} THEN "null" ELSE records[Min(on)].name.v

\* providers.forEach(p => p.enabled = p.name === providerName): on the objects of
\* DEFAULT_PROVIDERS that the list holds
EnabledInDefaults(hs, defs, providerName) ==
    [i \in DOMAIN defs |->
        IF \E k \in DOMAIN hs : hs[k].idx = i
        THEN [defs[i] EXCEPT !.enabled = JBool(defs[i].name = JStr(providerName))]
        ELSE defs[i]]

\* a selection that leaves the overlaid copies as they were loaded
EnabledInList_Unchanged(hs, providerName) == hs

\* ... and on the fresh objects of the list
EnabledInList(hs, providerName) ==
    [k \in DOMAIN hs |->
        IF hs[k].idx > 0 THEN hs[k]
        ELSE Own([hs[k].val EXCEPT !.enabled = JBool(hs[k].val.name = JStr(providerName))])]

\* what localStorage may hold when the page is opened
LegacyText == JSONstringify(JArr([k \in DOMAIN LEGACY_PROVIDERS |-> JObj(LEGACY_PROVIDERS[k])]))

StoredTexts ==
    {"", "not json", "{\"name\":\"Ollama\"}", "[null]", "[]",
     "[{\"name\":\"OpenAI\",\"apiKey\":\"sk-1\",\"enabled\":true}]",
     "[{\"name\":\"Ollama\",\"enabled\":false},{\"name\":\"Anthropic\",\"enabled\":true},{\"name\":\"Anthropic\",\"enabled\":false}]",
     LegacyText}

NoItem == [present |-> FALSE, text |-> ""]
Item(text) == [present |-> TRUE, text |-> text]

RegistryIdle ==
    /\ storage = NoItem
    /\ defaults = <<>>
    /\ panelOpen = FALSE
    /\ providers = <<>>
    /\ loaded = <<>>
    /\ active = "null"
    /\ lastCall = "none"
    /\ requested = "none"
    /\ selected = "none"
    /\ regSteps = 0

InitRegistry ==
    /\ storage \in {NoItem} \cup {Item(t) : t \in StoredTexts}
    /\ defaults = DEFAULT_PROVIDERS
    /\ panelOpen = FALSE
    /\ providers = <<>>
    /\ loaded = <<>>
    /\ active = "null"
    /\ lastCall = "none"
    /\ requested = "none"
    /\ selected = "none"
    /\ regSteps = 0

\* getAvailableProviders() (multiProviderService.ts 154-156)
GetAvailableProviders ==
    /\ loaded' = Records(loadProviderConfigs(storage, defaults), defaults)
    /\ lastCall' = "getAvailableProviders"
    /\ UNCHANGED <<storage, defaults, panelOpen, providers, active, requested, selected, regSteps>>

\* getActiveProvider() (multiProviderService.ts 159-162)
GetActiveProvider ==
    /\ active' = FirstEnabled(Records(loadProviderConfigs(storage, defaults), defaults))
    /\ lastCall' = "getActiveProvider"
    /\ UNCHANGED <<storage, defaults, panelOpen, providers, loaded, requested, selected, regSteps>>

\* the panel opens: setProviders(getAvailableProviders()) (SettingsPanel.tsx 13-17)
OpenPanel ==
    /\ ~panelOpen
    /\ panelOpen' = TRUE
    /\ providers' = loadProviderConfigs(storage, defaults)
    /\ lastCall' = "openPanel"
    /\ UNCHANGED <<storage, defaults, loaded, active, requested, selected, regSteps>>

\* the radio button of a provider (SettingsPanel.tsx 131-134):
\* setActiveProvider(provider.name), whose saveProviderConfigs writes the list
\* or catches the exception of localStorage.setItem, then
\* setProviders(getAvailableProviders())
SelectProvider ==
    \E providerName \in ProviderNames, written \in BOOLEAN :
        LET Save(hs, defs) ==
                /\ defaults' = defs
                /\ storage' = IF written THEN Item(Serialized(hs, defs)) ELSE storage
                /\ providers' = loadProviderConfigs(
                                    IF written THEN Item(Serialized(hs, defs)) ELSE storage, defs)
            Apply(hs) ==
                Save(EnabledInList(hs, providerName), EnabledInDefaults(hs, defaults, providerName))
        IN  /\ panelOpen
            /\ regSteps < MaxRegistrySteps
            /\ regSteps' = regSteps + 1
            /\ Apply(loadProviderConfigs(storage, defaults))
            /\ requested' = providerName
            /\ selected' = IF written THEN providerName ELSE "none"
            /\ lastCall' = "setActiveProvider"
            /\ UNCHANGED <<panelOpen, loaded, active>>

\* a credential typed into the panel: updateProvider(index, { apiKey })
\* (SettingsPanel.tsx 19-23, 172)
UpdateProvider ==
    \E index \in DOMAIN providers :
        /\ panelOpen
        /\ regSteps < MaxRegistrySteps
        /\ regSteps' = regSteps + 1
        /\ providers' = [providers EXCEPT
                            ![index] = Own(("apiKey" :> JStr("sk-2")) @@ Deref(providers[index], defaults))]
        /\ lastCall' = "updateProvider"
        /\ UNCHANGED <<storage, defaults, panelOpen, loaded, active, requested, selected>>

\* the Save button: saveProviderConfigs(providers); onClose() (SettingsPanel.tsx 25-28)
SaveSettings ==
    \E written \in BOOLEAN :
        /\ panelOpen
        /\ regSteps < MaxRegistrySteps
        /\ regSteps' = regSteps + 1
        /\ storage' = IF written THEN Item(Serialized(providers, defaults)) ELSE storage
        /\ panelOpen' = FALSE
        /\ providers' = <<>>
        /\ lastCall' = "saveSettings"
        /\ UNCHANGED <<defaults, loaded, active, requested, selected>>

\* the page is loaded again: the module is evaluated anew, the storage stays
ReloadPage ==
    /\ regSteps < MaxRegistrySteps
    /\ regSteps' = regSteps + 1
    /\ defaults' = DEFAULT_PROVIDERS
    /\ panelOpen' = FALSE
    /\ providers' = <<>>
    /\ lastCall' = "reload"
    /\ UNCHANGED <<storage, loaded, active, requested, selected>>

(***************************************************************************)
(* Streaming inference dispatcher (multiProviderService.ts 302-656)        *)
(***************************************************************************)

VARIABLES provider, onStream, stream, wire, phase, timer, requests, buffer,
          fullText, calls, marker, late, failure, result

varsDispatch == <<provider, onStream, stream, wire, phase, timer, requests, buffer,
                  fullText, calls, marker, late, failure, result>>

\* buffer.split('\n'): the pieces between the line feeds, the last one included
RECURSIVE SplitLines(_, _)
SplitLines(text, from) ==
    LET At(i) == IF i = 0 THEN <<From(text, from)>>
                 ELSE <<Slice(text, from, i - 1)>> \o SplitLines(text, i + 1)
    IN  At(IndexFrom(text, "\n", from))

\* String(value) of the string concatenation fullText += content
RECURSIVE JToText(_)
JToText(value) ==
    CASE value.t \in {"str", "num"} -> value.v
      [] value.t = "bool" -> IF value.v THEN "true" ELSE "false"
      [] value.t = "arr" ->
            IF value.v = <<>> THEN ""
            ELSE IF Len(value.v) = 1 THEN JToText(value.v[1])
            ELSE JToText(value.v[1]) \o "," \o JToText(JArr(Tail(value.v)))
      [] value.t = "obj" -> "[object Object]"
      [] OTHER -> ""

\* value || ''
Content(value) == IF JTruthy(value) THEN JToText(value) ELSE ""

\* what one read has done so far: the accumulated text, the callback arguments,
\* whether a termination marker was decoded (marker), whether text was added or
\* the callback called once the marker had been decoded (late), and whether the
\* for loop over the lines of this chunk was left (stop)
Progress(text, args, m, l) == [fullText |-> text, calls |-> args, marker |-> m, late |-> l, stop |-> FALSE]

\* the break of the for loop
Break(acc) == [acc EXCEPT !.marker = TRUE, !.stop = TRUE]

\* fullText += content; if (onStream) onStream(fullText) -- the callback receives
\* the text added, not the text accumulated
Accumulate_Delta(acc, content, cb) ==
    [acc EXCEPT !.fullText = @ \o content,
                !.calls = IF cb THEN Append(@, content) ELSE @,
                !.late = @ \/ (acc.marker /\ (cb \/ content # ""))]

\* fullText += content; if (onStream) onStream(fullText)
Accumulate(acc, content, cb) ==
    [acc EXCEPT !.fullText = @ \o content,
                !.calls = IF cb THEN Append(@, acc.fullText \o content) ELSE @,
                !.late = @ \/ (acc.marker /\ (cb \/ content # ""))]

\* JSON.parse threw a SyntaxError, or reading a property of null threw a
\* TypeError: both end in the catch of the line
LineThrows(r) == ~r.ok \/ r.val.t = "null"

\* generateOllamaResponse, the body of the for loop over the lines
OllamaLine(line, acc, cb) ==
    LET Parsed(r) ==
            IF LineThrows(r) THEN acc
            ELSE IF JTruthy(JGet(r.val, "done")) THEN Break(acc)
            ELSE Accumulate(acc, Content(JGet(r.val, "response")), cb)
    IN  IF trim(line) = "" THEN acc ELSE Parsed(JSONparse(line))

\* data.choices?.[0]?.delta?.content
ChatDelta(data) == JGet(JGet(JAt(JGet(data, "choices"), 0), "delta"), "content")

\* generateOpenAIResponse and generateOpenRouterResponse, the body of the for loop
ChatLine(line, acc, cb) ==
    LET Parsed(r) == IF LineThrows(r) THEN acc ELSE Accumulate(acc, Content(ChatDelta(r.val)), cb)
        Data(dataStr) == IF dataStr = "[DONE]" THEN Break(acc) ELSE Parsed(JSONparse(dataStr))
    IN  IF trim(line) = "" \/ ~StartsAt(line, "data: ", 1) THEN acc ELSE Data(From(line, 7))

\* generateAnthropicResponse, the body of the for loop
AnthropicLine(line, acc, cb) ==
    LET Parsed(r) ==
            IF LineThrows(r) THEN acc
            ELSE IF JGet(r.val, "type") # JStr("content_block_delta") THEN acc
            ELSE Accumulate(acc, Content(JGet(JGet(r.val, "delta"), "text")), cb)
        Data(dataStr) == IF dataStr = "[DONE]" THEN Break(acc) ELSE Parsed(JSONparse(dataStr))
    IN  IF trim(line) = "" \/ ~StartsAt(line, "data: ", 1) THEN acc ELSE Data(From(line, 7))

\* the adapter generateLocalResponse dispatches to
AdapterLine(name, line, acc, cb) ==
    CASE name = "Ollama" -> OllamaLine(line, acc, cb)
      [] name = "Anthropic" -> AnthropicLine(line, acc, cb)
      [] OTHER -> ChatLine(line, acc, cb)

\* for (const line of lines) { ... }
RECURSIVE ForLines(_, _, _, _)
ForLines(name, lines, acc, cb) ==
    IF lines = <<>> \/ acc.stop THEN acc
    ELSE ForLines(name, Tail(lines), AdapterLine(name, Head(lines), acc, cb), cb)

\* const lines = buffer.split('\n'); buffer = lines.pop() || ''
CompleteLines(parts) == SubSeq(parts, 1, Len(parts) - 1)
Remainder(parts) == parts[Len(parts)]

\* return fullText || '...'
Fallback(name) ==
    IF name = "Ollama" THEN "No response generated. The model may still be loading."
    ELSE "No response generated."

\* return '...': the fallback text whatever was accumulated
FinalText_FallbackOnly(name, text) == Fallback(name)

FinalText(name, text) == IF text = "" THEN Fallback(name) ELSE text

\* the catch of generateLocalResponse rethrowing what it caught
generateLocalResponse_Rethrow(message) == [raised |-> TRUE, text |-> message]

\* catch (error) { return `Error: ${error.message}. Please check ...` }
generateLocalResponse_Catch(message) ==
    [raised |-> FALSE, text |-> "Error: " \o message \o ". Please check your provider configuration."]

\* getActiveProvider returned null: no provider record is enabled
NoProvider == [name |-> "null", apiKey |-> ""]

\* what getActiveProvider can return: null, or one of the four built-in
\* providers, a hosted one with or without a credential
ActiveProviders ==
    {NoProvider, [name |-> "Ollama", apiKey |-> ""]}
    \cup {[name |-> n, apiKey |-> k] : n \in {"OpenAI", "Anthropic", "OpenRouter"}, k \in {"", "sk-key"}}

\* lines a provider writes on the wire
OllamaLines ==
    {"{\"response\":\"a\"}", "{\"response\":\"b\",\"done\":false}", "{\"response\":\"\"}",
     "{\"done\":true}", "oops"}

ChatLines ==
    {"data: {\"choices\":[{\"delta\":{\"content\":\"a\"}}]}",
     "data: {\"choices\":[{\"delta\":{\"content\":\"b\"}}]}",
     "data: {\"choices\":[{\"delta\":{}}]}",
     "data: [DONE]", ": ping"}

AnthropicLines ==
    {"data: {\"type\":\"content_block_delta\",\"delta\":{\"text\":\"a\"}}",
     "data: {\"type\":\"content_block_delta\",\"delta\":{\"text\":\"b\"}}",
     "data: {\"type\":\"content_block_delta\",\"delta\":{\"text\":\"\"}}",
     "data: [DONE]", "event: ping"}

WireLines(name) ==
    CASE name = "Ollama" -> OllamaLines
      [] name = "Anthropic" -> AnthropicLines
      [] OTHER -> ChatLines

\* an event of a server-sent-events stream ends with an empty line
LineEnd(name) == IF name = "Ollama" THEN "\n" ELSE "\n\n"

Streams(name) == UNION {[1..n -> WireLines(name)] : n \in 0..MaxLines}

RECURSIVE WireText(_, _)
WireText(name, lines) ==
    IF lines = <<>> THEN "" ELSE Head(lines) \o LineEnd(name) \o WireText(name, Tail(lines))

\* where the transport may end the next chunk: at the end of what is left, after
\* the first line feed, or after ChunkSplit bytes
ChunkEnds(text) ==
    {Len(text), IF ChunkSplit < Len(text) THEN ChunkSplit ELSE Len(text)}
    \cup (IF IndexFrom(text, "\n", 1) = 0 THEN {} ELSE {IndexFrom(text, "\n", 1)})

NoResult == [raised |-> FALSE, text |-> ""]

DispatchIdle ==
    /\ provider = [name |-> "Ollama", apiKey |-> ""]
    /\ onStream = FALSE
    /\ stream = <<>>
    /\ wire = ""
    /\ phase = "idle"
    /\ timer = "unset"
    /\ requests = 0
    /\ buffer = ""
    /\ fullText = ""
    /\ calls = <<>>
    /\ marker = FALSE
    /\ late = FALSE
    /\ failure = "none"
    /\ result = NoResult

InitDispatch ==
    /\ provider \in ActiveProviders
    /\ onStream \in BOOLEAN
    /\ stream = <<>>
    /\ wire = ""
    /\ phase = "idle"
    /\ timer = "unset"
    /\ requests = 0
    /\ buffer = ""
    /\ fullText = ""
    /\ calls = <<>>
    /\ marker = FALSE
    /\ late = FALSE
    /\ failure = "none"
    /\ result = NoResult

\* an adapter threw: the catch of generateLocalResponse (331-334)
Thrown(kind, message) ==
    /\ phase' = "settled"
    /\ failure' = kind
    /\ result' = generateLocalResponse_Catch(message)

\* a hosted adapter that lets a provider without a credential through
MissingCredential_Ignored(p) == FALSE

\* if (!provider.apiKey) throw ..., the first statement of the three hosted adapters
MissingCredential(p) == p.name \in {"OpenAI", "Anthropic", "OpenRouter"} /\ p.apiKey = ""

\* generateLocalResponse up to the await of fetch
GenerateLocalResponse ==
    /\ phase = "idle"
    /\ IF provider = NoProvider
       THEN /\ phase' = "settled"
            /\ result' = [raised |-> FALSE, text |-> NoProviderText]
            /\ UNCHANGED <<timer, requests, failure>>
       ELSE IF MissingCredential(provider)
       THEN /\ Thrown("credential", provider.name \o " API key not configured")
            /\ UNCHANGED <<timer, requests>>
       ELSE /\ phase' = "fetching"
            /\ timer' = "armed"
            /\ requests' = requests + 1
            /\ UNCHANGED <<failure, result>>
    /\ UNCHANGED <<provider, onStream, stream, wire, buffer, fullText, calls, marker, late>>

\* fetch resolves: clearTimeout, the status check, getReader
FetchResponds ==
    /\ phase = "fetching"
    /\ timer = "armed"
    /\ timer' = "cleared"
    /\ \E response \in {"ok", "status", "nobody"} :
         IF response = "status" THEN
                /\ Thrown("status", provider.name \o " API error: 500 Internal Server Error")
                /\ UNCHANGED <<stream, wire>>
         ELSE IF response = "nobody" THEN
                /\ Thrown("body", "Unable to read response stream")
                /\ UNCHANGED <<stream, wire>>
         ELSE
                /\ \E lines \in Streams(provider.name) :
                     /\ stream' = lines
                     /\ wire' = WireText(provider.name, lines)
                /\ phase' = "reading"
                /\ UNCHANGED <<failure, result>>
    /\ UNCHANGED <<provider, onStream, requests, buffer, fullText, calls, marker, late>>

\* fetch rejects: the connection failed (the timer stays armed)
FetchFails ==
    /\ phase = "fetching"
    /\ timer = "armed"
    /\ Thrown("network", "Failed to fetch")
    /\ UNCHANGED <<provider, onStream, stream, wire, timer, requests, buffer, fullText,
                   calls, marker, late>>

\* setTimeout(() => controller.abort(), ...)
TimeoutFires ==
    /\ timer = "armed"
    /\ timer' = "fired"
    /\ UNCHANGED <<provider, onStream, stream, wire, phase, requests, buffer, fullText,
                   calls, marker, late, failure, result>>

\* the aborted fetch rejects with an AbortError
FetchAborted ==
    /\ phase = "fetching"
    /\ timer = "fired"
    /\ Thrown("abort", "The user aborted a request.")
    /\ UNCHANGED <<provider, onStream, stream, wire, timer, requests, buffer, fullText,
                   calls, marker, late>>

\* one pass of the while loop: reader.read() gives a chunk
ReadChunk ==
    /\ phase = "reading"
    /\ wire # ""
    /\ \E n \in ChunkEnds(wire) :
         LET Done(parts, acc) ==
                 /\ buffer' = Remainder(parts)
                 /\ fullText' = acc.fullText
                 /\ calls' = acc.calls
                 /\ marker' = acc.marker
                 /\ late' = acc.late
             Lines(parts) ==
                 Done(parts, ForLines(provider.name, CompleteLines(parts),
                                      Progress(fullText, calls, marker, late), onStream))
         IN  /\ wire' = From(wire, n + 1)
             /\ Lines(SplitLines(buffer \o Slice(wire, 1, n), 1))
    /\ UNCHANGED <<provider, onStream, stream, phase, timer, requests, failure, result>>

\* reader.read() gives done: return fullText || '...'
ReadDone ==
    /\ phase = "reading"
    /\ wire = ""
    /\ phase' = "settled"
    /\ result' = [raised |-> FALSE, text |-> FinalText(provider.name, fullText)]
    /\ UNCHANGED <<provider, onStream, stream, wire, timer, requests, buffer, fullText,
                   calls, marker, late, failure>>

\* reader.read() rejects: the connection broke in the middle of the body
ReadFails ==
    /\ phase = "reading"
    /\ Thrown("read", "network error")
    /\ UNCHANGED <<provider, onStream, stream, wire, timer, requests, buffer, fullText,
                   calls, marker, late>>


(***************************************************************************)
(* The chat panel's submit handler and mount effect (part_001 19-65), and  *)
(* plan mode after its createFile request (part_005 434-523)               *)
(***************************************************************************)
\* what the model answers to the plan prompt
PlanTexts == {"1. Add the button", "## Steps\n1. Markup\n2. Style\n3. Handler\n"}

\* the mount effect calls initializeModel, which sets isLoading before it awaits
\* initEngine (part_001 19-26, part_005 674-676)
InitializeModel ==
    /\ ~isLoaded
    /\ ~isLoading
    /\ isLoading' = TRUE
    /\ UNCHANGED <<files, activeFile, messages, fsOps, userSteps, orchVars, auxVars>>

\* initEngine has resolved or has thrown: in both cases isLoaded becomes true
\* (part_005 677-689)
ModelInitialized ==
    /\ ~isLoaded
    /\ isLoading
    /\ isLoaded' = TRUE
    /\ isLoading' = FALSE
    /\ UNCHANGED <<files, activeFile, messages, fsOps, userSteps, orchVars,
                   liveWritingFile, statusLog, hasProvider, now, sent, oFailed, oPlanFile, oFiles>>

\* the error message of a submission made before the model is initialized
\* (part_001 52-58); the two pictographs of the text are written as words
CannotSend ==
    "[cross mark] Cannot send message: AI provider not configured. "
    \o "Please check your provider settings in the gear icon ([gear]) above."

\* handleSubmit with inference.isLoaded false (part_001 47-62)
SubmitRejected ==
    \E mode \in AllModes :
        /\ ~isLoading
        /\ ~isLoaded
        /\ userSteps < MaxUserSteps
        /\ userSteps' = userSteps + 1
        /\ messages' = Append(messages, Message("assistant", CannotSend, mode))
        /\ UNCHANGED <<files, activeFile, isLoading, fsOps, orchVars, auxVars>>

\* successMessage.content (part_005 481); the pictographs are written as words
\* and the backquotes as apostrophes
successMessage(file) ==
    "[check mark] **Implementation plan created!**\n\n"
    \o "[page] **File:** '" \o file \o "'\n"
    \o "[memo] **Status:** Plan generated and saved to disk\n"
    \o "[eyes] **View:** The plan file is now open in the editor\n\n"
    \o "The AI has analyzed your request and created a comprehensive implementation plan. "
    \o "You can see it being written live in the '" \o file \o "' file."

\* a fallback message that leaves the plan out
planMessage_HeadingOnly(plan) == "[clipboard] **Implementation Plan**"

\* planMessage.content (part_005 504)
planMessage(plan) == "[clipboard] **Implementation Plan**\n\n" \o plan

\* the set() after the try statement reads plan, a constant of the catch block
\* (part_005 493, 514-522): the updater throws a ReferenceError, which orchestrate
\* catches and logs (part_005 764-765)
PlanNotDefined == "ERR: plan is not defined"

\* currentContent after the first n lines: each line is followed by a line feed
RECURSIVE currentContent(_, _, _)
currentContent(initial, lines, n) ==
    IF n = 0 THEN initial ELSE currentContent(initial, lines, n - 1) \o lines[n] \o "\n"

\* the indexes i >= from of the loop at which it waits: i % 3 === 0
Pauses(lines, from) == {i \in from..(Len(lines) - 1) : i % 3 = 0}

Least(S) == CHOOSE i \in S : \A j \in S : i <= j

\* createFile has resolved: the plan file enters the FileMap and the editor, the
\* flag is set and the model is called (part_005 436-451)
PlanFileCreated(o) ==
    /\ pc[o] = "creating"
    /\ oFiles' = [oFiles EXCEPT ![o] = files]
    /\ files' = Put(files, oPlanFile[o], initialPlanContent(UserRequest))
    /\ activeFile' = oPlanFile[o]
    /\ statusLog' = Append(statusLog, "Plan file created: " \o oPlanFile[o] \o " - Opening for live editing")
    /\ liveWritingFile' = oPlanFile[o]
    /\ sent' = Sent
    /\ pc' = [pc EXCEPT ![o] = "planning"]
    /\ UNCHANGED <<messages, isLoading, fsOps, userSteps, oMode, oOutput, oNext, oPatches,
                   isLoaded, hasProvider, now, oFailed, oPlanFile>>

\* createFile has thrown: the catch block calls the model (part_005 490-493)
PlanFileFailed(o) ==
    /\ pc[o] = "creating"
    /\ sent' = Sent
    /\ pc' = [pc EXCEPT ![o] = "fallback"]
    /\ UNCHANGED <<files, activeFile, messages, isLoading, fsOps, userSteps, oMode, oOutput, oNext, oPatches,
                   liveWritingFile, statusLog, isLoaded, hasProvider, now, oFailed, oPlanFile, oFiles>>

\* the loop of part_005 457-470 from line index from (counted from 0) up to its
\* next wait, or, when it does not wait again, to the end of the handler and of
\* orchestrate (part_005 472-488, 514-522, 764-768)
WriteLines(o, lines, from) ==
    LET WriteTo(n) ==
            IF n > from
            THEN files' = Put(oFiles[o], oPlanFile[o],
                              currentContent(initialPlanContent(UserRequest), lines, n))
            ELSE UNCHANGED files
    IN  IF Pauses(lines, from) # {}
        THEN /\ WriteTo(Least(Pauses(lines, from)) + 1)
             /\ oNext' = [oNext EXCEPT ![o] = Least(Pauses(lines, from)) + 1]
             /\ pc' = [pc EXCEPT ![o] = "writing"]
             /\ UNCHANGED <<messages, isLoading, liveWritingFile, statusLog>>
        ELSE /\ WriteTo(Len(lines))
             /\ oNext' = [oNext EXCEPT ![o] = Len(lines)]
             /\ statusLog' = statusLog \o << "Plan completed and saved to " \o oPlanFile[o], PlanNotDefined >>
             /\ liveWritingFile' = "null"
             /\ messages' = Append(messages, Message("assistant", successMessage(oPlanFile[o]), "plan"))
             /\ isLoading' = FALSE
             /\ pc' = [pc EXCEPT ![o] = "done"]

\* planStream arrives and the loop writes its first line (part_005 451-470)
PlanArrives(o) ==
    \E planStream \in Responses(PlanTexts) :
        /\ pc[o] = "planning"
        /\ oOutput' = [oOutput EXCEPT ![o] = planStream]
        /\ WriteLines(o, SplitLines(planStream, 1), 0)
        /\ UNCHANGED <<activeFile, fsOps, userSteps, oMode, oPatches,
                       isLoaded, hasProvider, now, sent, oFailed, oPlanFile, oFiles>>

\* the 50 ms wait of the loop is over
PlanWrite(o) ==
    /\ pc[o] = "writing"
    /\ WriteLines(o, SplitLines(oOutput[o], 1), oNext[o])
    /\ UNCHANGED <<activeFile, fsOps, userSteps, oMode, oOutput, oPatches,
                   isLoaded, hasProvider, now, sent, oFailed, oPlanFile, oFiles>>

\* the plan of the catch block arrives and is posted as a chat message; then the
\* set() after the try statement throws (part_005 493-522, 764-768)
PlanFallbackArrives(o) ==
    \E plan \in Responses(PlanTexts) :
        /\ pc[o] = "fallback"
        /\ oOutput' = [oOutput EXCEPT ![o] = plan]
        /\ statusLog' = statusLog \o << "Plan generated (file creation failed, showing in chat)", PlanNotDefined >>
        /\ liveWritingFile' = "null"
        /\ messages' = Append(messages, Message("assistant", planMessage(plan), "plan"))
        /\ isLoading' = FALSE
        /\ pc' = [pc EXCEPT ![o] = "done"]
        /\ UNCHANGED <<files, activeFile, fsOps, userSteps, oMode, oNext, oPatches,
                       isLoaded, hasProvider, now, sent, oFailed, oPlanFile, oFiles>>

(***************************************************************************)
(* distillProject (localInferenceService.ts 530-591 and its continuation,  *)
(* IMPORTS/EXPORTS 1-322).  A file map is an ordered map whose contents    *)
(* are JavaScript values: strings in the FileMap, { content, size,         *)
(* extension } objects in the snapshot of the backend (server.js 142-171). *)
(* The document is the record of the sections of the template.  The        *)
(* symbol, import and export extractors are left uninterpreted: a section  *)
(* made of their results is written as the sequence of their applications. *)
(***************************************************************************)
VARIABLES dFiles, dActive, dUseBackend, dWorkspace, dPhase, dFallback, dReturned

varsDistill == <<dFiles, dActive, dUseBackend, dWorkspace, dPhase, dFallback, dReturned>>

\* the FileMap as a map of JavaScript values
Strings(project) == [i \in DOMAIN project |-> Entry(project[i].path, JStr(project[i].content))]

\* path.extname: from the last dot of the name, when that dot is not its first character
extname(path) ==
    IF LastIndexOf(path, ".") > 1 THEN From(path, LastIndexOf(path, ".")) ELSE ""

\* the snapshot GET /api/context/files answers with (server.js 153-171)
Snapshot(workspace) ==
    [i \in DOMAIN workspace |->
        Entry(workspace[i].path,
              JObj([content |-> JStr(workspace[i].content),
                    size |-> JNum(NatToString(Len(workspace[i].content))),
                    extension |-> JStr(extname(workspace[i].path))]))]

\* files[path]
ValueAt(values, path) == IF HasKey(values, path) THEN Lookup(values, path) ELSE JUndefined

\* the own properties an object spread or Object.assign copies from a value, as
\* far as a dependency name can be among them: those of an object
Properties(value) == IF value.t = "obj" THEN value.v ELSE <<>>

\* { ...pkg.dependencies, ...pkg.devDependencies } of the manifest packageJson,
\* with the try/catch around it: JSON.parse turns its argument into a string;
\* a text that does not parse, and the manifest null, leave deps empty
\* (IMPORTS/EXPORTS 234-241, 217-225)
ManifestDependencies(packageJson) ==
    LET Spread(a, b) == [k \in DOMAIN a \cup DOMAIN b |-> IF k \in DOMAIN b THEN b[k] ELSE a[k]]
        Of(parsed) ==
            IF parsed.ok /\ parsed.val.t # "null"
            THEN Spread(Properties(JGet(parsed.val, "dependencies")),
                        Properties(JGet(parsed.val, "devDependencies")))
            ELSE <<>>
    IN  IF JTruthy(packageJson) THEN Of(JSONparse(JToText(packageJson))) ELSE <<>>

FrameworkInfo(type, version, features) == [type |-> type, version |-> version, features |-> features]

\* detectFramework (IMPORTS/EXPORTS 230-283)
detectFramework(values) ==
    LET Dep(deps, name) == IF name \in DOMAIN deps THEN deps[name] ELSE JUndefined
        Has(deps, name) == JTruthy(Dep(deps, name))
        Detect(deps) ==
            IF Has(deps, "react")
            THEN IF Has(deps, "next")
                 THEN FrameworkInfo("nextjs", Dep(deps, "next"),
                                    <<"JSX", "Hooks", "Components", "SSR", "API Routes", "App Router">>)
                 ELSE FrameworkInfo("react", Dep(deps, "react"), <<"JSX", "Hooks", "Components">>)
            ELSE IF Has(deps, "vue")
            THEN IF Has(deps, "nuxt")
                 THEN FrameworkInfo("nuxt", Dep(deps, "nuxt"),
                                    <<"Vue Components", "Reactivity", "Templates", "SSR", "Auto-imports", "Modules">>)
                 ELSE FrameworkInfo("vue", Dep(deps, "vue"), <<"Vue Components", "Reactivity", "Templates">>)
            ELSE IF Has(deps, "svelte")
            THEN FrameworkInfo("svelte", Dep(deps, "svelte"), <<"Components", "Reactivity", "Stores">>)
            ELSE IF Has(deps, "@angular/core")
            THEN FrameworkInfo("angular", Dep(deps, "@angular/core"),
                               <<"Components", "Services", "Modules", "Dependency Injection">>)
            ELSE IF Has(deps, "express")
            THEN FrameworkInfo("express", Dep(deps, "express"), <<"Middleware", "Routing", "REST API">>)
            ELSE IF Has(deps, "fastify")
            THEN FrameworkInfo("fastify", Dep(deps, "fastify"), <<"Plugins", "Hooks", "Validation">>)
            ELSE FrameworkInfo("vanilla", JUndefined, <<"HTML", "CSS", "JavaScript">>)
    IN  Detect(ManifestDependencies(ValueAt(values, "package.json")))

\* extractDependencies (IMPORTS/EXPORTS 214-228)
extractDependencies(project) == ManifestDependencies(ValueAt(Strings(project), "package.json"))

\* the application of an extractor that the model leaves uninterpreted
Applied(extractor, content, filename) == [extractor |-> extractor, content |-> content, filename |-> filename]

\* the applications of extractor to files, in map order
Applications(extractor, project) ==
    [i \in DOMAIN project |-> Applied(extractor, project[i].content, project[i].path)]

\* filename.split('.').pop()?.toLowerCase()
Extension(filename) == toLowerCase(LastDotPart(filename))

IsScript(file) == Extension(file.path) \in {"js", "jsx", "ts", "tsx"}

IsPython(file) == Extension(file.path) = "py"

\* configFiles of extractRichContext (IMPORTS/EXPORTS 45-52), each with the text
\* the CONFIGURATION section writes for it (IMPORTS/EXPORTS 14-16)
RECURSIVE Configuration(_)
Configuration(project) ==
    LET Text(content, parsed) ==
            IF ~parsed.ok THEN content
            ELSE IF parsed.val.t \in {"obj", "arr", "null"}
            THEN LET json == JSONstringify(parsed.val)
                 IN  Slice(json, 1, IF Len(json) < 200 THEN Len(json) ELSE 200) \o "..."
            ELSE JToText(parsed.val)
        Line(file) ==
            IF file.path \in {"package.json", "tsconfig.json", "next.config.js", "nuxt.config.js"}
            THEN << file.path \o ": " \o Text(file.content, JSONparse(file.content)) >>
            ELSE <<>>
    IN  IF project = <<>> THEN <<>> ELSE Line(project[1]) \o Configuration(Tail(project))

\* extractRichContext (IMPORTS/EXPORTS 24-63)
extractRichContext(project, activePath) ==
    [symbols |-> Applications("extractJSSymbols", SelectSeq(project, IsScript))
                 \o Applications("extractPySymbols", SelectSeq(project, IsPython)),
     imports |-> Applications("extractJSImports", SelectSeq(project, IsScript))
                 \o Applications("extractPyImports", SelectSeq(project, IsPython)),
     exports |-> Applications("extractJSExports", SelectSeq(project, IsScript)),
     dependencies |-> extractDependencies(project),
     framework |-> detectFramework(Strings(project)),
     configFiles |-> Configuration(project)]

\* the order in which the manifests of the model name their dependencies
DependencyOrder == <<"react", "next", "vue", "nuxt", "svelte", "@angular/core", "express", "fastify">>

\* getRelatedExtensions (IMPORTS/EXPORTS 307-322)
getRelatedExtensions(activePath) ==
    CASE Extension(activePath) = "html" -> {"css", "js"}
      [] Extension(activePath) = "css" -> {"html", "js", "scss"}
      [] Extension(activePath) = "js" -> {"html", "css", "json", "ts"}
      [] Extension(activePath) = "jsx" -> {"css", "js", "json", "ts", "tsx"}
      [] Extension(activePath) = "ts" -> {"js", "json", "tsx"}
      [] Extension(activePath) = "tsx" -> {"css", "ts", "js", "json"}
      [] Extension(activePath) = "py" -> {"txt", "md", "json", "yml"}
      [] Extension(activePath) = "json" -> {"js", "ts", "py", "md"}
      [] OTHER -> {}

\* getRelevantFileContents (IMPORTS/EXPORTS 285-305)
getRelevantFileContents(project, activePath) ==
    LET Manifest == IF HasKey(project, "package.json") /\ Lookup(project, "package.json") # ""
                    THEN << "package.json: " \o Lookup(project, "package.json") >>
                    ELSE <<>>
        Related == SelectSeq(project, LAMBDA file :
                        /\ file.path # activePath
                        /\ Extension(file.path) \in getRelatedExtensions(activePath)
                        /\ Len(file.content) < 1000)
    IN  Join(Manifest \o [i \in DOMAIN Related |-> Related[i].path \o ":\n" \o Related[i].content], "\n\n")

\* a catch block that keeps what the try block had assigned before it threw
FallbackContext_Unassigned(project, activePath) ==
    [fileList |-> <<>>,
     activeContent |-> "",
     richContext |-> [symbols |-> <<>>, imports |-> <<>>, exports |-> <<>>, dependencies |-> <<>>,
                      framework |-> FrameworkInfo("vanilla", JUndefined, <<"HTML", "CSS", "JavaScript">>),
                      configFiles |-> <<>>]]

\* the values the catch block assigns (localInferenceService.ts 572-577)
FallbackContext(project, activePath) ==
    [fileList |-> Keys(project),
     activeContent |-> IF HasKey(project, activePath) THEN Lookup(project, activePath) ELSE "",
     richContext |-> extractRichContext(project, activePath)]

\* the values the else branch assigns (localInferenceService.ts 579-583)
LocalContext(project, activePath) ==
    [fileList |-> Keys(project),
     activeContent |-> IF HasKey(project, activePath) THEN Lookup(project, activePath) ELSE "",
     richContext |-> extractRichContext(project, activePath)]

\* the values the try block assigns from the snapshot context.files
\* (localInferenceService.ts 536-570)
BackendContext(snapshot, activePath) ==
    LET content(fileData) == JToText(JGet(fileData, "content"))
        Scripts == SelectSeq(snapshot, LAMBDA file :
                        JGet(file.content, "extension") \in {JStr(".js"), JStr(".ts"), JStr(".jsx"), JStr(".tsx")})
        Texts == [i \in DOMAIN Scripts |-> Entry(Scripts[i].path, content(Scripts[i].content))]
    IN  [fileList |-> Keys(snapshot),
         activeContent |-> IF JTruthy(JGet(ValueAt(snapshot, activePath), "content"))
                           THEN content(ValueAt(snapshot, activePath))
                           ELSE "",
         richContext |-> [symbols |-> Applications("extractJSSymbols", Texts),
                          imports |-> Applications("extractJSImports", Texts),
                          exports |-> Applications("extractJSExports", Texts),
                          dependencies |-> <<>>,
                          framework |-> detectFramework(snapshot),
                          configFiles |-> <<>>]]

\* the DEPENDENCIES section (IMPORTS/EXPORTS 5)
DependenciesText(dependencies) ==
    LET names == OrderedKeys(DOMAIN dependencies, DependencyOrder)
        shown == SubSeq(names, 1, IF Len(names) < 15 THEN Len(names) ELSE 15)
    IN  Join([i \in DOMAIN shown |-> shown[i] \o "@" \o JToText(dependencies[shown[i]])], ", ")
        \o (IF Len(names) > 15 THEN "..." ELSE "")

\* the framework line of the document (localInferenceService.ts 588)
FrameworkLine(framework) ==
    "FRAMEWORK: " \o toUpperCase(framework.type)
    \o (IF JTruthy(framework.version) THEN " (" \o JToText(framework.version) \o ")" ELSE "")

\* the context string distillProject returns, section by section
\* (localInferenceService.ts 586-591, IMPORTS/EXPORTS 1-21)
Document(context, project, activePath) ==
    [framework |-> FrameworkLine(context.richContext.framework),
     size |-> "PROJECT SIZE: " \o NatToString(Len(context.fileList)) \o " files",
     active |-> "ACTIVE FILE: " \o activePath,
     symbols |-> context.richContext.symbols,
     imports |-> context.richContext.imports,
     exports |-> context.richContext.exports,
     dependencies |-> DependenciesText(context.richContext.dependencies),
     activeContent |-> context.activeContent,
     features |-> Join(context.richContext.framework.features, ", "),
     configuration |-> Join(context.richContext.configFiles, "\n"),
     additional |-> getRelevantFileContents(project, activePath)]

\* package.json texts
ReactManifest == "{\"dependencies\":{\"react\":\"18.2.0\"}}"

Manifests ==
    {ReactManifest,
     "{\"dependencies\":{\"react\":\"18.2.0\",\"next\":\"14.0.0\"}}",
     "{\"name\":\"app\",\"devDependencies\":{\"vue\":\"3.4.0\"}}",
     "{\"name\":\"app\"}",
     "{ dependencies: react }"}

\* the files of a project without its manifest
Sources == << Entry("App.jsx", "export function App() {}"), Entry("styles.css", ".a { color: red; }") >>

Projects == {Sources} \cup {Append(Sources, Entry("package.json", manifest)) : manifest \in Manifests}

\* what the backend holds: no workspace selected (the request is answered with
\* status 400, server.js 145-147), or the files of a workspace
Workspaces ==
    {[selected |-> FALSE, project |-> <<>>]} \cup {[selected |-> TRUE, project |-> project] : project \in Projects}

DistillIdle ==
    /\ dFiles = <<>>
    /\ dActive = ""
    /\ dUseBackend = FALSE
    /\ dWorkspace = [selected |-> FALSE, project |-> <<>>]
    /\ dPhase = "idle"
    /\ dFallback = FALSE
    /\ dReturned = <<>>

InitDistill ==
    /\ dFiles \in Projects
    /\ dActive \in {"App.jsx", "package.json"}
    /\ dUseBackend \in BOOLEAN
    /\ dWorkspace \in Workspaces
    /\ dPhase = "idle"
    /\ dFallback = FALSE
    /\ dReturned = <<>>

\* distillProject(files, activeFile, useBackend) up to its await, or to its end
\* when useBackend is false (localInferenceService.ts 530-537, 579-591)
DistillProject ==
    /\ dPhase = "idle"
    /\ IF dUseBackend
       THEN /\ dPhase' = "waiting"
            /\ UNCHANGED dReturned
       ELSE /\ dPhase' = "returned"
            /\ dReturned' = << Document(LocalContext(dFiles, dActive), dFiles, dActive) >>
    /\ UNCHANGED <<dFiles, dActive, dUseBackend, dWorkspace, dFallback>>

\* apiClient.getWorkspaceContext() resolves with the snapshot
BackendResponds ==
    /\ dPhase = "waiting"
    /\ dWorkspace.selected
    /\ dPhase' = "returned"
    /\ dReturned' = << Document(BackendContext(Snapshot(dWorkspace.project), dActive), dFiles, dActive) >>
    /\ UNCHANGED <<dFiles, dActive, dUseBackend, dWorkspace, dFallback>>

\* apiClient.getWorkspaceContext() rejects: the backend is down, or answers
\* with an error status (apiClient.ts 44-47)
BackendFails ==
    /\ dPhase = "waiting"
    /\ dPhase' = "returned"
    /\ dFallback' = TRUE
    /\ dReturned' = << Document(FallbackContext(dFiles, dActive), dFiles, dActive) >>
    /\ UNCHANGED <<dFiles, dActive, dUseBackend, dWorkspace>>

(***************************************************************************)
(* detectFramework on its own: the copy of the distiller (IMPORTS/EXPORTS  *)
(* 230-283) and the copy of the store (part_005 36-63), which the mode     *)
(* handlers call for their prompts (part_005 345, 383, 529, 617)           *)
(***************************************************************************)
VARIABLES fNames, fManifest, fPhase, fResult

varsDetect == <<fNames, fManifest, fPhase, fResult>>

\* detectFramework of the store (part_005 36-63)
storeDetectFramework(values) ==
    LET Vanilla == FrameworkInfo("vanilla", JNull, <<"HTML", "CSS", "JavaScript">>)
        Dep(deps, name) == IF name \in DOMAIN deps THEN deps[name] ELSE JUndefined
        Has(deps, name) == JTruthy(Dep(deps, name))
        Detect(deps) ==
            IF Has(deps, "react")
            THEN IF Has(deps, "next")
                 THEN FrameworkInfo("nextjs", Dep(deps, "next"), <<"React", "SSR", "API Routes", "App Router">>)
                 ELSE FrameworkInfo("react", Dep(deps, "react"), <<"React", "JSX", "Hooks", "Components">>)
            ELSE IF Has(deps, "vue")
            THEN IF Has(deps, "nuxt")
                 THEN FrameworkInfo("nuxt", Dep(deps, "nuxt"), <<"Vue", "SSR", "Auto-imports">>)
                 ELSE FrameworkInfo("vue", Dep(deps, "vue"), <<"Vue", "Components", "Reactivity">>)
            ELSE IF Has(deps, "svelte")
            THEN FrameworkInfo("svelte", Dep(deps, "svelte"), <<"Svelte", "Components", "Reactivity">>)
            ELSE IF Has(deps, "@angular/core")
            THEN FrameworkInfo("angular", Dep(deps, "@angular/core"), <<"Angular", "Components", "Services">>)
            ELSE IF Has(deps, "express")
            THEN FrameworkInfo("express", Dep(deps, "express"), <<"Express", "Middleware", "REST API">>)
            ELSE Vanilla
    IN  IF JTruthy(ValueAt(values, "package.json"))
        THEN Detect(ManifestDependencies(ValueAt(values, "package.json")))
        ELSE Vanilla

\* the dependency names the detection looks at, in an order of the manifest
\* text that is the reverse of the order of detection
DependencyNames == <<"fastify", "express", "@angular/core", "svelte", "nuxt", "vue", "next", "react">>

VersionOf(i) == NatToString(i) \o ".0.0"

\* "name":"version" of the chosen names whose position is in range, comma-separated
Members(chosen, range) ==
    LET Positions == SelectSeq([i \in DOMAIN DependencyNames |-> i], LAMBDA i : i \in range /\ DependencyNames[i] \in chosen)
    IN  Join([k \in DOMAIN Positions |->
                 "\"" \o DependencyNames[Positions[k]] \o "\":\"" \o VersionOf(Positions[k]) \o "\""], ",")

\* a package.json declaring the chosen names, half of the list under
\* dependencies and half under devDependencies
ManifestOf(chosen) ==
    "{\"name\":\"app\",\"dependencies\":{" \o Members(chosen, {1, 3, 5, 7})
        \o "},\"devDependencies\":{" \o Members(chosen, {2, 4, 6, 8}) \o "}}"

\* package.json texts that declare nothing: not JSON, null, no dependency
\* sections, an empty file
BrokenManifests == {"{ dependencies: react }", "null", "{\"name\":\"app\"}", ""}

\* the FileMap of the call
DetectFiles(manifest) ==
    IF manifest = <<>> THEN Sources ELSE Append(Sources, Entry("package.json", manifest[1]))

DetectIdle == fNames = {} /\ fManifest = <<>> /\ fPhase = "idle" /\ fResult = <<>>

InitDetect ==
    /\ fNames \in SUBSET {DependencyNames[i] : i \in DOMAIN DependencyNames}
    /\ fManifest \in {<< ManifestOf(fNames) >>} \cup
                     (IF fNames = {} THEN {<<>>} \cup {<< text >> : text \in BrokenManifests} ELSE {})
    /\ fPhase = "idle"
    /\ fResult = <<>>

\* detectFramework(files) as extractRichContext calls it (IMPORTS/EXPORTS 60)
DetectInDistiller ==
    /\ fPhase = "idle"
    /\ fPhase' = "distiller"
    /\ fResult' = << detectFramework(Strings(DetectFiles(fManifest))) >>
    /\ UNCHANGED <<fNames, fManifest>>

\* detectFramework(projectState.files) as the mode handlers call it (part_005 345)
DetectInStore ==
    /\ fPhase = "idle"
    /\ fPhase' = "store"
    /\ fResult' = << storeDetectFramework(Strings(DetectFiles(fManifest))) >>
    /\ UNCHANGED <<fNames, fManifest>>

(***************************************************************************)
(* setFiles on its own (part_005 696-707)                                  *)
(***************************************************************************)
VARIABLES sGiven, sCalled, sStored

varsSetFiles == <<sGiven, sCalled, sStored>>

\* a map passed to setFiles holds at most this many entries
MaxEntries == 2

GivenKeys == {"index.html", "index.js", "notes"}

GivenTexts == {"const x = 1;", "let y = 2;", "<div>hi</div>", "hello"}

\* the maps with pairwise distinct keys
GivenMaps ==
    UNION {{[i \in 1..n |-> Entry(ks[i], cs[i])] :
               ks \in {f \in [1..n -> GivenKeys] : \A i, j \in 1..n : i # j => f[i] # f[j]},
               cs \in [1..n -> GivenTexts]} : n \in 0..MaxEntries}

SetFilesIdle == sGiven = <<>> /\ sCalled = FALSE /\ sStored = <<>>

InitSetFiles == sGiven \in GivenMaps /\ sCalled = FALSE /\ sStored = <<>>

\* setFiles(newFiles), with an object for updater
CallSetFiles ==
    /\ ~sCalled
    /\ sCalled' = TRUE
    /\ sStored' = setFiles(sGiven)
    /\ UNCHANGED sGiven

(***************************************************************************)
(* Specifications                                                          *)
(***************************************************************************)
vars == <<varsNormalize, varsExtract, varsSession, varsRegistry, varsDispatch, varsDistill, varsDetect, varsSetFiles>>

NextNormalize == Normalize /\ UNCHANGED <<varsExtract, varsSession, varsRegistry, varsDispatch, varsDistill, varsDetect, varsSetFiles>>

InitNormalizeOnly == InitNormalize /\ ExtractIdle /\ SessionIdle /\ RegistryIdle /\ DispatchIdle /\ DistillIdle /\ DetectIdle /\ SetFilesIdle

SpecNormalize == InitNormalizeOnly /\ [][NextNormalize]_vars

NextExtract ==
    \/ CallExtractFiles /\ UNCHANGED <<varsNormalize, varsSession, varsRegistry, varsDispatch, varsDistill, varsDetect, varsSetFiles>>
    \/ CallProcessAICodeActions /\ UNCHANGED <<varsNormalize, varsSession, varsRegistry, varsDispatch, varsDistill, varsDetect, varsSetFiles>>

InitExtractOnly == NormalizeIdle /\ InitExtract /\ SessionIdle /\ RegistryIdle /\ DispatchIdle /\ DistillIdle /\ DetectIdle /\ SetFilesIdle

SpecExtract == InitExtractOnly /\ [][NextExtract]_vars

InitFencedOnly == NormalizeIdle /\ InitFenced /\ SessionIdle /\ RegistryIdle /\ DispatchIdle /\ DistillIdle /\ DetectIdle /\ SetFilesIdle

SpecFenced == InitFencedOnly /\ [][NextExtract]_vars

NextSession ==
    \/ InitializeModel /\ UNCHANGED <<varsNormalize, varsExtract, varsRegistry, varsDispatch, varsDistill, varsDetect, varsSetFiles>>
    \/ ModelInitialized /\ UNCHANGED <<varsNormalize, varsExtract, varsRegistry, varsDispatch, varsDistill, varsDetect, varsSetFiles>>
    \/ SubmitRejected /\ UNCHANGED <<varsNormalize, varsExtract, varsRegistry, varsDispatch, varsDistill, varsDetect, varsSetFiles>>
    \/ SetActiveFile /\ UNCHANGED <<varsNormalize, varsExtract, varsRegistry, varsDispatch, varsDistill, varsDetect, varsSetFiles>>
    \/ EditorChange /\ UNCHANGED <<varsNormalize, varsExtract, varsRegistry, varsDispatch, varsDistill, varsDetect, varsSetFiles>>
    \/ DeleteFile /\ UNCHANGED <<varsNormalize, varsExtract, varsRegistry, varsDispatch, varsDistill, varsDetect, varsSetFiles>>
    \/ ClearChat /\ UNCHANGED <<varsNormalize, varsExtract, varsRegistry, varsDispatch, varsDistill, varsDetect, varsSetFiles>>
    \/ \E o \in Orchs : OrchestrateStart(o) /\ UNCHANGED <<varsNormalize, varsExtract, varsRegistry, varsDispatch, varsDistill, varsDetect, varsSetFiles>>
    \/ \E o \in Orchs : OrchestrateContext(o) /\ UNCHANGED <<varsNormalize, varsExtract, varsRegistry, varsDispatch, varsDistill, varsDetect, varsSetFiles>>
    \/ \E o \in Orchs : AnswerArrives(o) /\ UNCHANGED <<varsNormalize, varsExtract, varsRegistry, varsDispatch, varsDistill, varsDetect, varsSetFiles>>
    \/ \E o \in Orchs : AgentRequirements(o) /\ UNCHANGED <<varsNormalize, varsExtract, varsRegistry, varsDispatch, varsDistill, varsDetect, varsSetFiles>>
    \/ \E o \in Orchs : AgentCodeArrives(o) /\ UNCHANGED <<varsNormalize, varsExtract, varsRegistry, varsDispatch, varsDistill, varsDetect, varsSetFiles>>
    \/ \E o \in Orchs : AgentDirectiveAnswered(o) /\ UNCHANGED <<varsNormalize, varsExtract, varsRegistry, varsDispatch, varsDistill, varsDetect, varsSetFiles>>

InitSessionOnly == NormalizeIdle /\ ExtractIdle /\ InitSession /\ RegistryIdle /\ DispatchIdle /\ DistillIdle /\ DetectIdle /\ SetFilesIdle

SpecSession == InitSessionOnly /\ [][NextSession]_vars

\* one request, in any of the four modes, with the user at the editor
NextOrchestrate ==
    \/ SetActiveFile /\ UNCHANGED <<varsNormalize, varsExtract, varsRegistry, varsDispatch, varsDistill, varsDetect, varsSetFiles>>
    \/ EditorChange /\ UNCHANGED <<varsNormalize, varsExtract, varsRegistry, varsDispatch, varsDistill, varsDetect, varsSetFiles>>
    \/ DeleteFile /\ UNCHANGED <<varsNormalize, varsExtract, varsRegistry, varsDispatch, varsDistill, varsDetect, varsSetFiles>>
    \/ ClearChat /\ UNCHANGED <<varsNormalize, varsExtract, varsRegistry, varsDispatch, varsDistill, varsDetect, varsSetFiles>>
    \/ InitializeModel /\ UNCHANGED <<varsNormalize, varsExtract, varsRegistry, varsDispatch, varsDistill, varsDetect, varsSetFiles>>
    \/ ModelInitialized /\ UNCHANGED <<varsNormalize, varsExtract, varsRegistry, varsDispatch, varsDistill, varsDetect, varsSetFiles>>
    \/ SubmitRejected /\ UNCHANGED <<varsNormalize, varsExtract, varsRegistry, varsDispatch, varsDistill, varsDetect, varsSetFiles>>
    \/ \E mode \in AllModes : Orchestrate(1, mode) /\ UNCHANGED <<varsNormalize, varsExtract, varsRegistry, varsDispatch, varsDistill, varsDetect, varsSetFiles>>
    \/ OrchestrateContext(1) /\ UNCHANGED <<varsNormalize, varsExtract, varsRegistry, varsDispatch, varsDistill, varsDetect, varsSetFiles>>
    \/ AnswerArrives(1) /\ UNCHANGED <<varsNormalize, varsExtract, varsRegistry, varsDispatch, varsDistill, varsDetect, varsSetFiles>>
    \/ AgentRequirements(1) /\ UNCHANGED <<varsNormalize, varsExtract, varsRegistry, varsDispatch, varsDistill, varsDetect, varsSetFiles>>
    \/ AgentCodeArrives(1) /\ UNCHANGED <<varsNormalize, varsExtract, varsRegistry, varsDispatch, varsDistill, varsDetect, varsSetFiles>>
    \/ AgentDirectiveAnswered(1) /\ UNCHANGED <<varsNormalize, varsExtract, varsRegistry, varsDispatch, varsDistill, varsDetect, varsSetFiles>>
    \/ PlanFileCreated(1) /\ UNCHANGED <<varsNormalize, varsExtract, varsRegistry, varsDispatch, varsDistill, varsDetect, varsSetFiles>>
    \/ PlanFileFailed(1) /\ UNCHANGED <<varsNormalize, varsExtract, varsRegistry, varsDispatch, varsDistill, varsDetect, varsSetFiles>>
    \/ PlanArrives(1) /\ UNCHANGED <<varsNormalize, varsExtract, varsRegistry, varsDispatch, varsDistill, varsDetect, varsSetFiles>>
    \/ PlanWrite(1) /\ UNCHANGED <<varsNormalize, varsExtract, varsRegistry, varsDispatch, varsDistill, varsDetect, varsSetFiles>>
    \/ PlanFallbackArrives(1) /\ UNCHANGED <<varsNormalize, varsExtract, varsRegistry, varsDispatch, varsDistill, varsDetect, varsSetFiles>>

InitOrchestrate ==
    /\ InitStore
    /\ isLoaded = FALSE
    /\ hasProvider \in BOOLEAN

InitOrchestrateOnly == NormalizeIdle /\ ExtractIdle /\ InitOrchestrate /\ RegistryIdle /\ DispatchIdle /\ DistillIdle /\ DetectIdle /\ SetFilesIdle

SpecOrchestrate == InitOrchestrateOnly /\ [][NextOrchestrate]_vars

\* plan requests only, one after the other or overlapping, while time passes
NextPlans ==
    \/ Tick /\ UNCHANGED <<varsNormalize, varsExtract, varsRegistry, varsDispatch, varsDistill, varsDetect, varsSetFiles>>
    \/ InitializeModel /\ UNCHANGED <<varsNormalize, varsExtract, varsRegistry, varsDispatch, varsDistill, varsDetect, varsSetFiles>>
    \/ ModelInitialized /\ UNCHANGED <<varsNormalize, varsExtract, varsRegistry, varsDispatch, varsDistill, varsDetect, varsSetFiles>>
    \/ \E o \in Orchs : Orchestrate(o, "plan") /\ UNCHANGED <<varsNormalize, varsExtract, varsRegistry, varsDispatch, varsDistill, varsDetect, varsSetFiles>>
    \/ \E o \in Orchs : OrchestrateContext(o) /\ UNCHANGED <<varsNormalize, varsExtract, varsRegistry, varsDispatch, varsDistill, varsDetect, varsSetFiles>>
    \/ \E o \in Orchs : PlanFileCreated(o) /\ UNCHANGED <<varsNormalize, varsExtract, varsRegistry, varsDispatch, varsDistill, varsDetect, varsSetFiles>>
    \/ \E o \in Orchs : PlanFileFailed(o) /\ UNCHANGED <<varsNormalize, varsExtract, varsRegistry, varsDispatch, varsDistill, varsDetect, varsSetFiles>>
    \/ \E o \in Orchs : PlanArrives(o) /\ UNCHANGED <<varsNormalize, varsExtract, varsRegistry, varsDispatch, varsDistill, varsDetect, varsSetFiles>>
    \/ \E o \in Orchs : PlanWrite(o) /\ UNCHANGED <<varsNormalize, varsExtract, varsRegistry, varsDispatch, varsDistill, varsDetect, varsSetFiles>>
    \/ \E o \in Orchs : PlanFallbackArrives(o) /\ UNCHANGED <<varsNormalize, varsExtract, varsRegistry, varsDispatch, varsDistill, varsDetect, varsSetFiles>>

InitPlansOnly == NormalizeIdle /\ ExtractIdle /\ InitSession /\ RegistryIdle /\ DispatchIdle /\ DistillIdle /\ DetectIdle /\ SetFilesIdle

SpecPlans == InitPlansOnly /\ [][NextPlans]_vars

NextRegistry ==
    \/ GetAvailableProviders /\ UNCHANGED <<varsNormalize, varsExtract, varsSession, varsDispatch, varsDistill, varsDetect, varsSetFiles>>
    \/ GetActiveProvider /\ UNCHANGED <<varsNormalize, varsExtract, varsSession, varsDispatch, varsDistill, varsDetect, varsSetFiles>>
    \/ OpenPanel /\ UNCHANGED <<varsNormalize, varsExtract, varsSession, varsDispatch, varsDistill, varsDetect, varsSetFiles>>
    \/ SelectProvider /\ UNCHANGED <<varsNormalize, varsExtract, varsSession, varsDispatch, varsDistill, varsDetect, varsSetFiles>>
    \/ UpdateProvider /\ UNCHANGED <<varsNormalize, varsExtract, varsSession, varsDispatch, varsDistill, varsDetect, varsSetFiles>>
    \/ SaveSettings /\ UNCHANGED <<varsNormalize, varsExtract, varsSession, varsDispatch, varsDistill, varsDetect, varsSetFiles>>
    \/ ReloadPage /\ UNCHANGED <<varsNormalize, varsExtract, varsSession, varsDispatch, varsDistill, varsDetect, varsSetFiles>>

InitRegistryOnly == NormalizeIdle /\ ExtractIdle /\ SessionIdle /\ InitRegistry /\ DispatchIdle /\ DistillIdle /\ DetectIdle /\ SetFilesIdle

SpecRegistry == InitRegistryOnly /\ [][NextRegistry]_vars

NextDispatch ==
    \/ GenerateLocalResponse /\ UNCHANGED <<varsNormalize, varsExtract, varsSession, varsRegistry, varsDistill, varsDetect, varsSetFiles>>
    \/ FetchResponds /\ UNCHANGED <<varsNormalize, varsExtract, varsSession, varsRegistry, varsDistill, varsDetect, varsSetFiles>>
    \/ FetchFails /\ UNCHANGED <<varsNormalize, varsExtract, varsSession, varsRegistry, varsDistill, varsDetect, varsSetFiles>>
    \/ TimeoutFires /\ UNCHANGED <<varsNormalize, varsExtract, varsSession, varsRegistry, varsDistill, varsDetect, varsSetFiles>>
    \/ FetchAborted /\ UNCHANGED <<varsNormalize, varsExtract, varsSession, varsRegistry, varsDistill, varsDetect, varsSetFiles>>
    \/ ReadChunk /\ UNCHANGED <<varsNormalize, varsExtract, varsSession, varsRegistry, varsDistill, varsDetect, varsSetFiles>>
    \/ ReadDone /\ UNCHANGED <<varsNormalize, varsExtract, varsSession, varsRegistry, varsDistill, varsDetect, varsSetFiles>>
    \/ ReadFails /\ UNCHANGED <<varsNormalize, varsExtract, varsSession, varsRegistry, varsDistill, varsDetect, varsSetFiles>>

InitDispatchOnly == NormalizeIdle /\ ExtractIdle /\ SessionIdle /\ RegistryIdle /\ InitDispatch /\ DistillIdle /\ DetectIdle /\ SetFilesIdle

SpecDispatch == InitDispatchOnly /\ [][NextDispatch]_vars

\* what the page itself does is done eventually: the synchronous part of the call,
\* the timer callback, and the rejection of an aborted fetch. What the provider
\* does (answering, sending a chunk, ending the body, breaking the connection)
\* may never happen.
FairDispatch ==
    /\ WF_vars(GenerateLocalResponse /\ UNCHANGED <<varsNormalize, varsExtract, varsSession, varsRegistry, varsDistill, varsDetect, varsSetFiles>>)
    /\ WF_vars(TimeoutFires /\ UNCHANGED <<varsNormalize, varsExtract, varsSession, varsRegistry, varsDistill, varsDetect, varsSetFiles>>)
    /\ WF_vars(FetchAborted /\ UNCHANGED <<varsNormalize, varsExtract, varsSession, varsRegistry, varsDistill, varsDetect, varsSetFiles>>)

SpecDispatchLive == InitDispatchOnly /\ [][NextDispatch]_vars /\ FairDispatch

NextDistill ==
    \/ DistillProject /\ UNCHANGED <<varsNormalize, varsExtract, varsSession, varsRegistry, varsDispatch, varsDetect, varsSetFiles>>
    \/ BackendResponds /\ UNCHANGED <<varsNormalize, varsExtract, varsSession, varsRegistry, varsDispatch, varsDetect, varsSetFiles>>
    \/ BackendFails /\ UNCHANGED <<varsNormalize, varsExtract, varsSession, varsRegistry, varsDispatch, varsDetect, varsSetFiles>>

InitDistillOnly == NormalizeIdle /\ ExtractIdle /\ SessionIdle /\ RegistryIdle /\ DispatchIdle /\ InitDistill /\ DetectIdle /\ SetFilesIdle

SpecDistill == InitDistillOnly /\ [][NextDistill]_vars

NextDetect ==
    \/ DetectInDistiller /\ UNCHANGED <<varsNormalize, varsExtract, varsSession, varsRegistry, varsDispatch, varsDistill, varsSetFiles>>
    \/ DetectInStore /\ UNCHANGED <<varsNormalize, varsExtract, varsSession, varsRegistry, varsDispatch, varsDistill, varsSetFiles>>

InitDetectOnly == NormalizeIdle /\ ExtractIdle /\ SessionIdle /\ RegistryIdle /\ DispatchIdle /\ DistillIdle /\ InitDetect /\ SetFilesIdle

SpecDetect == InitDetectOnly /\ [][NextDetect]_vars

NextSetFiles == CallSetFiles /\ UNCHANGED <<varsNormalize, varsExtract, varsSession, varsRegistry, varsDispatch, varsDistill, varsDetect>>

InitSetFilesOnly == NormalizeIdle /\ ExtractIdle /\ SessionIdle /\ RegistryIdle /\ DispatchIdle /\ DistillIdle /\ DetectIdle /\ InitSetFiles

SpecSetFiles == InitSetFilesOnly /\ [][NextSetFiles]_vars

(***************************************************************************)
(* Properties                                                              *)
(***************************************************************************)
\* the (path, content) pairs orchestration o has submitted to the file-system
\* collaborator
Submitted(o) ==
    {Entry(fsOps[i].path, fsOps[i].content) : i \in {k \in DOMAIN fsOps : fsOps[k].by = o}}

\* C1: when an agent-mode orchestration ends, the set of (path, content) pairs it
\* submitted to the file-system collaborator equals the set of pairs it merged
\* into the FileMap, and when that set is not empty activeFile is the first
\* merged path.
C1_SubmittedEqualsMerged ==
    [][\A o \in Orchs :
          (oMode[o] = "agent" /\ pc[o] # "done" /\ pc'[o] = "done")
          => /\ Submitted(o)' = PairSet(oPatches'[o])
             /\ oPatches'[o] # <<>> => activeFile' = oPatches'[o][1].path]_vars

\* C2: for a model output made of N well-formed CREATE blocks with pairwise
\* distinct paths, extractFiles returns exactly N entries, keyed by those paths,
\* each mapped to the trimmed content of its block.
C2_CreateBlocksExtracted ==
    \A n \in 1..MaxBlocks :
        \A ps \in [1..n -> BlockPaths], cs \in [1..n -> BlockBodies] :
            (/\ \A i, j \in 1..n : i # j => ps[i] # ps[j]
             /\ xText = JoinBlocks([i \in 1..n |-> CreateBlock(ps[i], cs[i])])
             /\ "extractFiles" \in xCalled)
            => /\ Len(xFiles) = n
               /\ PairSet(xFiles) = {Entry(ps[i], trim(cs[i])) : i \in 1..n}

\* the extension of a FileMap key is valid for its content, or is the detected type
ExtensionFits(path, content) ==
    /\ Includes(path, ".")
    /\ \/ isValidExtensionForContent(toLowerCase(LastDotPart(path)), content)
       \/ toLowerCase(LastDotPart(path)) = detectContentType(content)

\* C3: in every reachable state of the session every key of the FileMap carries
\* an extension that is valid for its content under the content-type heuristic.
C3_KeysFitContent ==
    \A i \in DOMAIN files : ExtensionFits(files[i].path, files[i].content)

\* C4: normalizing an already-normalized filename again with the same content
\* returns it unchanged.
C4_NormalizationIdempotent ==
    [][(nCount >= 1 /\ nCount' = nCount + 1) => nName' = nName]_vars

\* a filename whose extension was replaced has been normalized a second time
C4_Witness == nCount = 2 /\ nName # nOrig /\ Includes(nOrig, ".")

\* the names of the records whose enabled is true, and of those whose enabled is false
EnabledTrue(records) == {records[k].name.v : k \in {j \in DOMAIN records : records[j].enabled = JBool(TRUE)}}
EnabledFalse(records) == {records[k].name.v : k \in {j \in DOMAIN records : records[j].enabled = JBool(FALSE)}}

\* a load returned provider X with enabled = true and every other provider with
\* enabled = false
OnlyEnabled(records, providerName) ==
    /\ EnabledTrue(records) = {providerName}
    /\ EnabledFalse(records) = ProviderNames \ {providerName}

IsProviderList(text) ==
    /\ JSONparse(text).ok
    /\ JSONparse(text).val.t = "arr"
    /\ \A k \in DOMAIN JSONparse(text).val.v : JSONparse(text).val.v[k].t = "obj"

\* the built-in default i overlaid with the first record of that name in the list,
\* the built-in default itself when the list has none
ExpectedRecord(i, arr) ==
    IF FindByName(arr, DEFAULT_PROVIDERS[i].name.v, 1) = 0
    THEN DEFAULT_PROVIDERS[i]
    ELSE Overlay(DEFAULT_PROVIDERS[i], arr[FindByName(arr, DEFAULT_PROVIDERS[i].name.v, 1)])

\* C6: for every persisted provider list P, a load returns one record per
\* built-in default: the default overlaid field by field with the record of P of
\* the same name when there is one, otherwise the default unchanged.
C6_LoadOverlaysDefaults ==
    (lastCall = "getAvailableProviders" /\ storage.present /\ IsProviderList(storage.text))
    => loaded = [i \in DOMAIN DEFAULT_PROVIDERS |-> ExpectedRecord(i, JSONparse(storage.text).val.v)]

\* a line of the newline-delimited stream that carries a text delta
IsDeltaLine(line) ==
    /\ JSONparse(line).ok
    /\ JSONparse(line).val.t = "obj"
    /\ ~JTruthy(JGet(JSONparse(line).val, "done"))
    /\ JGet(JSONparse(line).val, "response").t = "str"

\* a line of the newline-delimited stream with done = true
IsDoneLine(line) ==
    /\ JSONparse(line).ok
    /\ JSONparse(line).val.t = "obj"
    /\ JGet(JSONparse(line).val, "done") = JBool(TRUE)

\* text deltas d1..dn followed by a done line
IsDeltaStream(lines) ==
    /\ lines # <<>>
    /\ IsDoneLine(lines[Len(lines)])
    /\ \A k \in 1..(Len(lines) - 1) : IsDeltaLine(lines[k])

DeltaOf(line) == JGet(JSONparse(line).val, "response").v

\* d1 .. dk of the stream
RECURSIVE Concatenation(_, _)
Concatenation(lines, k) ==
    IF k = 0 THEN "" ELSE Concatenation(lines, k - 1) \o DeltaOf(lines[k])

\* the newline-delimited adapter has read a stream of deltas and a done line to its end
DeltaStreamRead ==
    /\ provider.name = "Ollama"
    /\ phase = "settled"
    /\ failure = "none"
    /\ IsDeltaStream(stream)

CumulativeCalls ==
    onStream => calls = [k \in 1..(Len(stream) - 1) |-> Concatenation(stream, k)]

\* C7: for every newline-delimited stream of text deltas d1..dn followed by a
\* done line, the adapter calls the callback once per delta in arrival order, the
\* k-th call carrying d1..dk, and returns d1..dn.
C7_CumulativeCallbacks ==
    DeltaStreamRead =>
        /\ CumulativeCalls
        /\ result = [raised |-> FALSE, text |-> Concatenation(stream, Len(stream) - 1)]

\* C7, amended: the same, except that the adapter returns its fixed fallback
\* text when d1..dn is the empty text.
C7_CumulativeCallbacksOrFallback ==
    DeltaStreamRead =>
        /\ CumulativeCalls
        /\ result = [raised |-> FALSE,
                     text |-> IF Concatenation(stream, Len(stream) - 1) = ""
                              THEN "No response generated. The model may still be loading."
                              ELSE Concatenation(stream, Len(stream) - 1)]

\* the stream of the claim's example was read: callbacks "a", "ab", result "ab"
C7_Witness ==
    /\ DeltaStreamRead
    /\ Len(stream) = 3
    /\ DeltaOf(stream[1]) = "a"
    /\ DeltaOf(stream[2]) = "b"
    /\ calls = <<"a", "ab">>
    /\ result.text = "ab"

\* C8: once the termination marker has been decoded (done = true, or the
\* [DONE] data line), no line that arrives after it, in the same chunk or in a
\* later one, adds to the accumulated text or triggers the callback.
C8_NothingAfterMarker == ~late

\* C9: for every stream on which the callback was called at least once, the
\* text the dispatcher returns equals the argument of the last call.
C9_ResultIsLastCall ==
    (phase = "settled" /\ calls # <<>>) => result = [raised |-> FALSE, text |-> calls[Len(calls)]]

\* C9, amended: when the stream was read to its end and the last callback
\* argument is not the empty text, the dispatcher returns that argument; when it
\* is the empty text the dispatcher returns the adapter's fallback text, and when
\* reading the body failed it returns the error text.
C9_ResultIsLastCallOrFallback ==
    (phase = "settled" /\ calls # <<>>) =>
        /\ (failure = "none" /\ calls[Len(calls)] # "") =>
               result = [raised |-> FALSE, text |-> calls[Len(calls)]]
        /\ (failure = "none" /\ calls[Len(calls)] = "") =>
               result = [raised |-> FALSE, text |-> Fallback(provider.name)]
        /\ failure # "none" =>
               /\ failure = "read"
               /\ result.text = "Error: network error. Please check your provider configuration."

\* a server-sent-events stream was read to its end after two callbacks
C9_Witness ==
    /\ provider.name = "OpenAI"
    /\ phase = "settled"
    /\ failure = "none"
    /\ calls = <<"b", "ba">>
    /\ result.text = "ba"

\* C10: generateLocalResponse never raises: for every active provider and every
\* failure inside an adapter it returns a string.
C10_NeverRaises == phase = "settled" => ~result.raised

\* the request was aborted by its timeout and the call returned the error text
C10_Witness ==
    /\ phase = "settled"
    /\ failure = "abort"
    /\ ~result.raised
    /\ result.text = "Error: The user aborted a request.. Please check your provider configuration."

\* C11: if the active provider is a hosted one (OpenAI, Anthropic, OpenRouter)
\* and has no credential, a generateLocalResponse call issues no network request
\* and its result is an error string.
C11_NoRequestWithoutCredential ==
    (provider.name \in {"OpenAI", "Anthropic", "OpenRouter"} /\ provider.apiKey = "") =>
        /\ requests = 0
        /\ phase \in {"idle", "settled"}
        /\ phase = "settled" =>
               result = [raised |-> FALSE,
                         text |-> "Error: " \o provider.name
                                  \o " API key not configured. Please check your provider configuration."]

\* the call for a hosted provider without a credential has returned
C11_Witness ==
    /\ provider = [name |-> "Anthropic", apiKey |-> ""]
    /\ phase = "settled"
    /\ failure = "credential"
    /\ requests = 0

\* C12: every provider call is bounded by its timeout: if the provider stops
\* delivering data, before the response starts or in the middle of the stream,
\* the request is aborted when the timeout fires and the dispatcher returns an
\* explanatory string, so every generateLocalResponse call eventually returns.
C12_EveryCallReturns == <>(phase = "settled")

\* an assistant message of the given mode that carries the missing provider error
IsProviderError(message, mode) ==
    /\ message.role = "assistant"
    /\ message.mode = mode
    /\ Includes(message.content, NoProviderText)

\* C13: in every mode (ask, plan, agent, debug), when no provider is active the
\* request is rejected: no call goes out to a provider, and no step of the
\* orchestration changes the FileMap, activeFile or the live-writing flag; the
\* only thing it adds to the conversation log after the user's message is an
\* assistant message that carries the error text.
C13_NoProviderRejected ==
    [][(~hasProvider /\ pc'[1] # pc[1])
       => /\ sent' = 0
          /\ files' = files
          /\ activeFile' = activeFile
          /\ liveWritingFile' = "null"
          /\ pc[1] # "idle" =>
                \/ messages' = messages
                \/ /\ Len(messages') = Len(messages) + 1
                   /\ SubSeq(messages', 1, Len(messages)) = messages
                   /\ IsProviderError(messages'[Len(messages')], oMode[1])]_vars

AssistantMessages(log) == SelectSeq(log, LAMBDA message : message.role = "assistant")

\* C14: every step of an orchestration in ask mode or in debug mode leaves the
\* FileMap and activeFile unchanged, and the orchestration appends exactly one
\* assistant message to the conversation log, in the step that ends it, whatever
\* the model returned.
C14_AskDebugFrame ==
    [][(oMode'[1] \in {"ask", "debug"} /\ pc'[1] # pc[1])
       => /\ files' = files
          /\ activeFile' = activeFile
          /\ IF pc'[1] = "done"
             THEN /\ Len(messages') = Len(messages) + 1
                  /\ SubSeq(messages', 1, Len(messages)) = messages
                  /\ messages'[Len(messages')].role = "assistant"
                  /\ messages'[Len(messages')].mode = oMode[1]
             ELSE AssistantMessages(messages') = AssistantMessages(messages)]_vars

C14_Witness ==
    /\ oMode[1] = "debug"
    /\ pc[1] = "done"
    /\ Len(messages) = 2
    /\ messages[2] = Message("assistant", "[FILE: a.js]\nconst x = 1;\n[/FILE]", "debug")
    /\ ~HasKey(files, "a.js")

\* the contents the plan file goes through while planStream is written into it
PlanPrefixes(planStream) ==
    {currentContent(initialPlanContent(UserRequest), SplitLines(planStream, 1), n) :
        n \in 0..Len(SplitLines(planStream, 1))}

\* C15: in a plan-mode orchestration the plan file is in the FileMap while the
\* model is being asked for the plan; in every state where the live-writing flag
\* is not null it names the plan file, the plan file is a key of the FileMap, and
\* its content is the initial header followed by a prefix of the plan's lines;
\* and when the orchestration has completed the flag is null.
C15_LiveWritingNamesPlanFile ==
    /\ pc[1] = "planning" => HasKey(files, oPlanFile[1])
    /\ liveWritingFile # "null" =>
          /\ liveWritingFile = oPlanFile[1]
          /\ HasKey(files, liveWritingFile)
          /\ Lookup(files, liveWritingFile) \in PlanPrefixes(oOutput[1])
    /\ pc[1] = "done" => liveWritingFile = "null"

\* C16: when createFile fails, the steps of the plan-mode orchestration from
\* there on add no plan file to the FileMap, leave the FileMap and activeFile
\* unchanged and the live-writing flag null, and the last of them appends one
\* assistant message, of mode plan, whose content carries the plan text.
C16_FallbackPostsPlan ==
    [][(\/ pc[1] = "creating" /\ pc'[1] = "fallback"
        \/ pc[1] = "fallback" /\ pc'[1] = "done")
       => /\ files' = files
          /\ ~HasKey(files', oPlanFile[1])
          /\ activeFile' = activeFile
          /\ liveWritingFile' = "null"
          /\ pc'[1] = "done" =>
                /\ oOutput'[1] \in Responses(PlanTexts)
                /\ Len(messages') = Len(messages) + 1
                /\ SubSeq(messages', 1, Len(messages)) = messages
                /\ messages'[Len(messages')].role = "assistant"
                /\ messages'[Len(messages')].mode = "plan"
                /\ Includes(messages'[Len(messages')].content, oOutput'[1])]_vars

C16_Witness ==
    /\ oMode[1] = "plan"
    /\ pc[1] = "done"
    /\ hasProvider
    /\ oFiles[1] = <<>>
    /\ ~HasKey(files, oPlanFile[1])
    /\ activeFile = "index.html"
    /\ liveWritingFile = "null"
    /\ messages[Len(messages)] =
          Message("assistant", planMessage("## Steps\n1. Markup\n2. Style\n3. Handler\n"), "plan")

\* the requests orchestration o has sent to the file-system collaborator, in order
Requests(o) == SelectSeq(fsOps, LAMBDA request : request.by = o)

\* C17: whichever directives the collaborator fails, an agent-mode orchestration
\* ends only after it has submitted every directive of its output, in order, and
\* in its last step it merges the extracted files into the FileMap and appends
\* the assistant message.
C17_BatchContinues ==
    [][(oMode[1] = "agent" /\ pc[1] # "done" /\ pc'[1] = "done")
       => /\ Requests(1)' = [k \in DOMAIN processAICodeActions(oOutput'[1]) |->
                                Submission(1, processAICodeActions(oOutput'[1])[k])]
          /\ oFailed'[1] \subseteq DOMAIN processAICodeActions(oOutput'[1])
          /\ files' = Merge(files, extractFiles(oOutput'[1]))
          /\ messages' = Append(messages, Message("assistant", oOutput'[1], "agent"))]_vars

C17_Witness ==
    /\ oMode[1] = "agent"
    /\ pc[1] = "done"
    /\ oFailed[1] = {1}
    /\ Len(Requests(1)) = 2
    /\ messages[Len(messages)] = Message("assistant", oOutput[1], "agent")

IsPrefix(s, t) == Len(s) <= Len(t) /\ SubSeq(t, 1, Len(s)) = s

\* C18: the conversation log is append-only: every step of the session
\* (submissions, the steps of orchestrations that run interleaved, rejected
\* submissions, editor and file tree actions) other than clearChat leaves the
\* previous log as a prefix of the new log.
C18_LogAppendOnly == [][ClearChat \/ IsPrefix(messages, messages')]_vars

C18_Witness ==
    /\ Len(messages) = 5
    /\ messages[1].content = CannotSend
    /\ messages[2].role = "user"
    /\ messages[3].role = "user"
    /\ messages[4] = Message("assistant", "Done.", "ask")
    /\ messages[5].mode = "agent"
    /\ pc[1] = "done"
    /\ pc[2] = "done"
    /\ oMode[1] = "agent"

\* C19: when distillProject is called with the external-source flag set and the
\* backend snapshot is unavailable, it returns a document, and that document is
\* the one that distillation from the local FileMap (flag unset) gives for the
\* same FileMap and active file.
C19_FallbackEqualsLocal ==
    (dPhase = "returned" /\ dUseBackend /\ dFallback)
    => dReturned = << Document(LocalContext(dFiles, dActive), dFiles, dActive) >>

C19_Witness ==
    /\ dPhase = "returned"
    /\ dUseBackend
    /\ dFallback
    /\ ~dWorkspace.selected
    /\ dFiles = Append(Sources, Entry("package.json", ReactManifest))
    /\ dActive = "App.jsx"
    /\ dReturned[1].framework = "FRAMEWORK: REACT (18.2.0)"
    /\ dReturned[1].size = "PROJECT SIZE: 3 files"
    /\ dReturned[1].activeContent = "export function App() {}"

\* the files the returned document was distilled from
Distilled == IF dUseBackend /\ ~dFallback THEN dWorkspace.project ELSE dFiles

\* C20: for a workspace whose package.json declares a react dependency and no
\* next dependency, the framework line of the distilled context reads REACT,
\* whether the file contents come from the local FileMap or from the backend
\* workspace snapshot.
C20_FrameworkLineReact ==
    (/\ dPhase = "returned"
     /\ HasKey(Distilled, "package.json")
     /\ Lookup(Distilled, "package.json") = ReactManifest)
    => StartsAt(dReturned[1].framework, "FRAMEWORK: REACT", 1)

\* the type the order react (nextjs with next), vue (nuxt with nuxt), svelte,
\* angular, express, fastify, otherwise vanilla gives for declared names
FirstMatch(names) ==
    IF "react" \in names THEN (IF "next" \in names THEN "nextjs" ELSE "react")
    ELSE IF "vue" \in names THEN (IF "nuxt" \in names THEN "nuxt" ELSE "vue")
    ELSE IF "svelte" \in names THEN "svelte"
    ELSE IF "@angular/core" \in names THEN "angular"
    ELSE IF "express" \in names THEN "express"
    ELSE IF "fastify" \in names THEN "fastify"
    ELSE "vanilla"

\* C21: whatever names the manifest declares, and for a missing or unparsable
\* manifest, each detectFramework returns the type of the first match in the
\* order react/nextjs, vue/nuxt, svelte, angular, express, fastify, vanilla
C21_DetectionOrder == fPhase # "idle" => fResult[1].type = FirstMatch(fNames)

\* a fenced block (language tag, body) is non-trivial
NonTrivial(block) == Len(trim(block[2])) > 10

\* the body carries a filename comment
NamedByComment(block) == StartsAt(block[2], "# file:", 1)

\* 1-based position of block i among the non-trivial blocks of seq
Position(seq, i) == Cardinality({j \in 1..i : NonTrivial(seq[j])})

\* the language of a block: its tag, text without one
LanguageOf(block) == IF block[1] = "" THEN "text" ELSE block[1]

\* <language><k>.<ext>
NumberedName(block, k) ==
    LanguageOf(block) \o NatToString(k) \o "."
        \o (IF LanguageExtension(LanguageOf(block)) = "" THEN "txt" ELSE LanguageExtension(LanguageOf(block)))

\* C22: for an output of fenced blocks only, every block whose trimmed body is
\* longer than 10 characters and has no filename comment has its entry, named
\* <language><k>.<ext> with k its position among the non-trivial blocks, and
\* there are no more entries than non-trivial blocks
C22_NumberedEntries ==
    \A seq \in FencedSeqs :
        (xText = FencedText(seq) /\ "extractFiles" \in xCalled)
        => /\ Len(xFiles) <= Cardinality({i \in DOMAIN seq : NonTrivial(seq[i])})
           /\ \A i \in DOMAIN seq :
                (NonTrivial(seq[i]) /\ ~NamedByComment(seq[i]))
                => /\ HasKey(xFiles, NumberedName(seq[i], Position(seq, i)))
                   /\ Lookup(xFiles, NumberedName(seq[i], Position(seq, i))) = trim(seq[i][2])

\* the name of the k-th non-trivial block: the name of its filename comment;
\* index.html and styles.css for a first block tagged html or css;
\* component<k>.jsx or script<k>.js for javascript that mentions React, or
\* function, const or let; <language><k>.<ext> otherwise
SyntheticName(block, k) ==
    IF NamedByComment(block) THEN "app.py"
    ELSE IF block[1] = "html" /\ k = 1 THEN "index.html"
    ELSE IF block[1] = "css" /\ k = 1 THEN "styles.css"
    ELSE IF block[1] \in {"javascript", "js"} /\ Includes(block[2], "React")
    THEN "component" \o NatToString(k) \o ".jsx"
    ELSE IF /\ block[1] \in {"javascript", "js"}
            /\ (Includes(block[2], "function") \/ Includes(block[2], "const") \/ Includes(block[2], "let"))
    THEN "script" \o NatToString(k) \o ".js"
    ELSE NumberedName(block, k)

\* the entries of the non-trivial blocks of seq from block i on, stored in order
RECURSIVE Stored(_, _, _)
Stored(seq, i, stored) ==
    IF i > Len(seq) THEN stored
    ELSE IF NonTrivial(seq[i])
    THEN Stored(seq, i + 1, Put(stored, SyntheticName(seq[i], Position(seq, i)), trim(seq[i][2])))
    ELSE Stored(seq, i + 1, stored)

\* C22 (amended): the result holds exactly the entries of the non-trivial
\* blocks, stored in order under their synthetic names
C22_SyntheticEntries ==
    \A seq \in FencedSeqs :
        (xText = FencedText(seq) /\ "extractFiles" \in xCalled) => xFiles = Stored(seq, 1, <<>>)

C22_Witness ==
    /\ "extractFiles" \in xCalled
    /\ xText = FencedText(<< <<"python", "print('hello from a body of fifty characters....')">> >>)
    /\ xFiles = << Entry("python1.py", "print('hello from a body of fifty characters....')") >>

\* the status log holds an error entry
HasErrorEntry(log) == \E i \in DOMAIN log : StartsAt(log[i], "ERR", 1)

\* C23: a plan-mode orchestration appends exactly one assistant message to the
\* conversation log, in the step that ends it, and no other step of it adds
\* one; and when the plan file was created and the plan written into it, the
\* orchestration ends without an error entry in the status log.
C23_PlanOneMessageNoError ==
    [][(oMode'[1] = "plan" /\ pc'[1] # pc[1])
       => IF pc'[1] = "done"
          THEN /\ Len(messages') = Len(messages) + 1
               /\ SubSeq(messages', 1, Len(messages)) = messages
               /\ messages'[Len(messages')].role = "assistant"
               /\ pc[1] \in {"planning", "writing"} => ~HasErrorEntry(statusLog')
          ELSE AssistantMessages(messages') = AssistantMessages(messages)]_vars

\* the orchestrations that have been started and have not finished
InFlight == {o \in Orchs : pc[o] \notin {"idle", "done"}}

\* C24: with requests issued through the submit handler only, at most one
\* orchestration is in flight at any time, and inference.isLoading is true for
\* as long as an orchestration is in flight.
C24_OneInFlight ==
    /\ Cardinality(InFlight) <= 1
    /\ InFlight # {} => isLoading

\* the entries of a FileMap other than that of path
OtherEntries(m, path) == {entry \in PairSet(m) : entry.path # path}

\* C25: every step in which plan mode writes the plan into its file changes
\* only the plan file's entry of the FileMap: every other entry, as the user
\* has left it, is kept, and none is added or removed.
C25_PlanWritesOnlyPlanFile ==
    [][(/\ pc[1] \in {"planning", "writing"}
        /\ (pc'[1] # pc[1] \/ oNext'[1] # oNext[1]))
       => OtherEntries(files', oPlanFile[1]) = OtherEntries(files, oPlanFile[1])]_vars

\* what the loop of an adapter accumulates when the transport delivers the
\* whole body in one chunk
SingleChunk(name, body, cb) ==
    ForLines(name, CompleteLines(SplitLines(body, 1)), Progress("", <<>>, FALSE, FALSE), cb)

\* C26: the text a streaming adapter returns and the values it passes to the
\* callback depend on the bytes of the body only: however the transport has
\* split the body into chunks, they are those of the run that receives the
\* body in a single chunk.
C26_ChunkingIndependent ==
    (phase = "settled" /\ failure = "none" /\ requests = 1)
    => /\ result.text = FinalText(provider.name,
                                  SingleChunk(provider.name, WireText(provider.name, stream), onStream).fullText)
       /\ calls = SingleChunk(provider.name, WireText(provider.name, stream), onStream).calls

\* the createFile requests the file-system collaborator has received
PlanFileRequests == SelectSeq(fsOps, LAMBDA request : request.operation = "createFile")

\* C27: two plan-mode requests never write to the same plan file: no two
\* createFile requests of different orchestrations carry the same path.
C27_DistinctPlanFiles ==
    \A i, j \in DOMAIN PlanFileRequests :
        PlanFileRequests[i].by # PlanFileRequests[j].by
        => PlanFileRequests[i].path # PlanFileRequests[j].path

\* a directive block of the model output
DirectiveBlock(tag, p, c) == IF tag = "CREATE" THEN CreateBlock(p, c) ELSE ModifyBlock(p, c)

\* the content of the last element of seq that targets path p
LastFor(seq, p) == seq[Max({i \in DOMAIN seq : seq[i].path = p})].content

\* the directives of a model output made of n blocks, in the order of the text
InTextOrder(n, tags, ps, cs) ==
    [i \in 1..n |-> [operation |-> IF tags[i] = "CREATE" THEN "create" ELSE "write",
                     path |-> ps[i], content |-> trim(cs[i])]]

\* C28: the directives are submitted to the file-system collaborator in the
\* order in which they appear in the model output, so that for every path the
\* content submitted last is that of its last directive in the text.
C28_AppliedInTextOrder ==
    \A n \in 1..MaxBlocks :
        \A tags \in [1..n -> {"CREATE", "MODIFY"}], ps \in [1..n -> BlockPaths], cs \in [1..n -> BlockBodies] :
            (/\ xText = JoinBlocks([i \in 1..n |-> DirectiveBlock(tags[i], ps[i], cs[i])])
             /\ "processAICodeActions" \in xCalled)
            => /\ xActions = InTextOrder(n, tags, ps, cs)
               /\ \A i \in 1..n : LastFor(xActions, ps[i]) = LastFor(InTextOrder(n, tags, ps, cs), ps[i])

\* C29: the FileMap is never empty, and no step of the session (an editor edit,
\* a deletion, a step of an orchestration) takes the active file out of the
\* FileMap: if activeFile is a key before the step, it is a key after it.
C29_ActiveFileStaysValid ==
    [][HasKey(files, activeFile) => (Len(files') > 0 /\ HasKey(files', activeFile'))]_vars

\* key is path, or path with another extension
SameOrCorrected(key, path) == key = path \/ StripExtension(key) = StripExtension(path)

\* C30: setFiles loses no file: the stored FileMap has as many entries as the
\* map it was given and holds every content of that map under its original key
\* or under that key with a corrected extension.
C30_SetFilesLosesNoFile ==
    sCalled =>
        /\ Len(sStored) = Len(sGiven)
        /\ \A i \in DOMAIN sGiven :
              \E j \in DOMAIN sStored :
                  /\ SameOrCorrected(sStored[j].path, sGiven[i].path)
                  /\ sStored[j].content = sGiven[i].content

====
